---- MODULE Spec2Model ----
(***************************************************************************)
(* The ZeroMQ kernel of IPython/zmq/pykernel.py with the output streams of *)
(* IPython/zmq/iostream.py, as one state machine.                          *)
(*                                                                         *)
(* Kernel.start() blocks in session.recv at pc = "idle".  A handler runs   *)
(* to completion in one step except where the code itself can be           *)
(* suspended or where the environment can be observed: between two         *)
(* statements of the executed user code (requests arrive and time passes   *)
(* meanwhile), while _raw_input waits for the input reply, and between two *)
(* iterations of _abort_queue (each a non-blocking recv and a sleep).      *)
(*                                                                         *)
(* Strings that the code takes apart are kept as the sequence of their     *)
(* parts: a msg_type is the sequence of its '_'-separated words, an oname  *)
(* is the sequence of its '.'-separated segments, a text written to a      *)
(* stream is the sequence of its characters.                               *)
(***************************************************************************)
EXTENDS Integers, Sequences, FiniteSets, TLC

\* ------------------------------------------------------------------ bounds

\* Number of requests that arrive on the reply channel in one behaviour.
MaxReq == 3

\* The clock stops advancing at MaxTime (ticks of one flush_interval).
MaxTime == 3

\* OutStream.flush_interval, in clock ticks.
flush_interval == 1

\* time.sleep(0.1) of _abort_queue and shutdown_request, in clock ticks.
SleepTicks == 2

\* ------------------------------------------------------------ message data

execute_request == <<"execute", "request">>
complete_request == <<"complete", "request">>
object_info_request == <<"object", "info", "request">>
shutdown_request == <<"shutdown", "request">>
\* A type with no handler (record_ports' docstring names it).
connect_request == <<"connect", "request">>

execute_reply == <<"execute", "reply">>
complete_reply == <<"complete", "reply">>
object_info_reply == <<"object", "info", "reply">>
shutdown_reply == <<"shutdown", "reply">>

\* Kernel.__init__: the message types that get a handler.
msg_types == {execute_request, complete_request, object_info_request, shutdown_request}

\* The identities (routing envelopes) of the clients: two clients take turns, so
\* that two requests in a row never carry the same identity.
IdentOf(msg_id) == IF msg_id % 2 = 1 THEN "c1" ELSE "c2"

\* OutStream.__init__: parent_header = {}.
EmptyHeader == << >>

\* The names user code binds.
Names == {"x", "y", "len"}

\* Python's None: what getattr and dict.get give for what is missing, and a value
\* that user code can bind like any other.
None == "None"

\* The user code the clients submit.
Codes == {"x = 1", "y = x", "print('ab')", "x = 2; sys.stderr.write('e'); 1/0",
          "x = (", "if x:", "y = raw_input('p')"}

\* The value of an exception whose class makes str() of it raise.
Unprintable == "<E object>"

\* Codes that raise what 'except Exception' would not catch, or what cannot be printed.
EdgeCodes == {"raise SystemExit", "raise KeyboardInterrupt",
              "class E(Exception): __str__ = None\nraise E()"}

\* code.CommandCompiler on a source: a code object (the statements exec runs),
\* None for an incomplete command, or a raised exception.
compiler(code) ==
    CASE code = "x = 1" -> [kind |-> "code", stmts |-> << <<"bind", "x", "1">> >>]
      [] code = "y = x" -> [kind |-> "code", stmts |-> << <<"copy", "y", "x">> >>]
      [] code = "print('ab')" -> [kind |-> "code", stmts |-> << <<"write", "stdout", <<"a", "b">> >>,
                                                               <<"write", "stdout", <<"\n">> >> >>]
      [] code = "x = 2; sys.stderr.write('e'); 1/0" ->
            [kind |-> "code", stmts |-> << <<"bind", "x", "2">>,
                                           <<"write", "stderr", <<"e">> >>,
                                           <<"raise", "ZeroDivisionError", "division by zero">> >>]
      [] code = "y = raw_input('p')" -> [kind |-> "code", stmts |-> << <<"input", "y", "p">> >>]
      [] code = "sys.stdout.write('a'); sys.stderr.write('e'); y = raw_input('p')" ->
            [kind |-> "code", stmts |-> << <<"write", "stdout", <<"a">> >>,
                                           <<"write", "stderr", <<"e">> >>,
                                           <<"input", "y", "p">> >>]
      [] code = "x = (" -> [kind |-> "raise", ename |-> "SyntaxError", evalue |-> "invalid syntax"]
      [] code = "if x:" -> [kind |-> "none"]
      [] code = "len = None" -> [kind |-> "code", stmts |-> << <<"bind", "len", None>> >>]
      [] code = "raise SystemExit" ->
            [kind |-> "code", stmts |-> << <<"raise", "SystemExit", "">> >>]
      [] code = "raise KeyboardInterrupt" ->
            [kind |-> "code", stmts |-> << <<"raise", "KeyboardInterrupt", "">> >>]
      [] code = "class E(Exception): __str__ = None\nraise E()" ->
            [kind |-> "code", stmts |-> << <<"raise", "E", Unprintable>> >>]

\* session.extract_header: the header of a message, or the header itself.
extract_header(msg) ==
    IF "header" \in DOMAIN msg THEN msg.header ELSE msg

\* Session.send: the message put on a socket.  by is bookkeeping of the model:
\* for a stream message, the request that wrote each character of its data.
Msg(socket, msg_type, content, parent, ident, by) ==
    [socket |-> socket, msg_type |-> msg_type, content |-> content,
     parent_header |-> extract_header(parent), ident |-> ident, by |-> by]

\* traceback.format_exception
format_exception(ename, evalue) == <<"Traceback (most recent call last):", ename, evalue>>

\* session.send without ident, and the value no identity has.
NoIdent == "None"

\* No request is being handled.
NoRequest == [ident |-> NoIdent, msg |-> << >>]

\* No exception was raised.
NoExc == [ename |-> "", evalue |-> ""]

\* The requests a client can put on the reply channel, by message type.
Contents(msg_type) ==
    CASE msg_type = execute_request -> {[code |-> c] : c \in Codes} \cup {[silent |-> "no code"]}
      [] msg_type = complete_request -> {[line |-> "x", text |-> "x"]}
      [] msg_type = object_info_request -> {[oname |-> <<"x", "real">>]}
      [] msg_type = shutdown_request -> {[restart |-> "no"]}
      [] msg_type = connect_request -> {[none |-> "none"]}

\* No reply has been received on req_socket.
NoReply == [content |-> << >>]

\* The replies a client can give to an input_request.
InputReplies == {[content |-> [value |-> "v"]], [content |-> [status |-> "no value"]]}

VARIABLES
    pc,                 \* where the kernel process is: "idle", "exec", "input", "abort", "exited", "crashed"
    reply_queue,        \* requests waiting on reply_socket, each [ident, msg]
    cur,                \* the (ident, parent) of the handler that is running
    ip,                 \* index of the next statement of the code being executed
    user_ns,            \* Kernel.user_ns
    history,            \* Kernel.history
    streams,            \* sys.stdout and sys.stderr, the two OutStreams
    displayhook_parent, \* the parent set on sys.displayhook
    raw_input,          \* builtins.raw_input: the (ident, parent) its closure holds
    abort_local,        \* the locals ident, msg of _abort_queue
    sent,               \* every message sent, on any socket, in sending order
    now,                \* time.time()
    next_id,            \* msg_id of the next request to arrive
    handled,            \* bookkeeping: the requests start() dispatched to a handler, in order
    backlog,            \* bookkeeping: [id, cause]: request id was queued when cause got its error reply
    calls,              \* bookkeeping: the calls made on sys.stdout from outside the kernel, in order
    input_reply,        \* _raw_input: the reply last received on req_socket
    ipns,               \* an ipnsdict: its own contents (self) and its _savedict
    prior,              \* bookkeeping: what ipns held just before its most recent update
    autopx,             \* ParalleMagic.autopx
    run_source,         \* shell.run_source: the method installed on the shell
    _original_run_source,       \* ParalleMagic._original_run_source
    active_multiengine_client,  \* ParalleMagic.active_multiengine_client
    ran,                \* bookkeeping: the sources given to shell.run_source and where they ran
    faults              \* bookkeeping: how often recv on reply_socket failed with a transport error

vars == <<pc, reply_queue, cur, ip, user_ns, history, streams, displayhook_parent,
          raw_input, abort_local, sent, now, next_id, handled, backlog, calls, input_reply,
          ipns, prior, autopx, run_source, _original_run_source, active_multiengine_client,
          ran, faults>>

\* The variables of the test namespace (IPython.testing.globalipapp).
testing_vars == <<ipns, prior>>

\* The variables of the parallel magics (IPython.extensions.parallelmagic).
parallel_vars == <<autopx, run_source, _original_run_source, active_multiengine_client, ran>>

\* ipnsdict.__init__ without arguments: an empty dict with an empty _savedict.
ipnsdict == [self |-> << >>, _savedict |-> << >>]

\* No update was called on the ipnsdict yet.
NoPrior == [taken |-> FALSE, held |-> << >>]

\* An attribute that was never assigned (ParalleMagic.__init__ sets only autopx).
NoAttribute == "<no attribute>"

\* -------------------------------------------------------------- OutStream

\* OutStream._new_buffer
_new_buffer(s) == [s EXCEPT !.buffer = << >>, !.start = -1, !.by = << >>]

\* OutStream.__init__
OutStream(name) ==
    _new_buffer([name |-> name, open |-> TRUE, parent_header |-> EmptyHeader,
                 buffer |-> << >>, start |-> -1, by |-> << >>])

\* Faulty variant: set_parent keeps the header it has.
set_parent_stale(s, parent) == s

\* Faulty variant: set_parent starts a new buffer for the new parent.
set_parent_discards(s, parent) ==
    [s EXCEPT !.parent_header = extract_header(parent), !.buffer = << >>, !.start = -1,
              !.by = << >>]

\* OutStream.set_parent
set_parent(s, parent) == [s EXCEPT !.parent_header = extract_header(parent)]

\* Faulty variant: close leaves the stream open.
close_leaves_open(s) == s

\* OutStream.close
close(s) == [s EXCEPT !.open = FALSE]

\* Faulty variant: the stream message is sent without the parent of the stream.
flush_untagged(s) ==
    IF ~s.open
    THEN [raised |-> TRUE, s |-> s, out |-> << >>]
    ELSE IF s.buffer # << >>
         THEN [raised |-> FALSE, s |-> _new_buffer(s),
               out |-> << Msg("pub", <<"stream">>, [name |-> s.name, data |-> s.buffer],
                              EmptyHeader, NoIdent, s.by) >>]
         ELSE [raised |-> FALSE, s |-> s, out |-> << >>]

\* Faulty variant: the buffer is not replaced after its text has been sent.
flush_keeps_buffer(s) ==
    IF ~s.open
    THEN [raised |-> TRUE, s |-> s, out |-> << >>]
    ELSE IF s.buffer # << >>
         THEN [raised |-> FALSE, s |-> s,
               out |-> << Msg("pub", <<"stream">>, [name |-> s.name, data |-> s.buffer],
                              s.parent_header, NoIdent, s.by) >>]
         ELSE [raised |-> FALSE, s |-> s, out |-> << >>]

\* Faulty variant: flush publishes the buffer of a closed stream too.
flush_ignores_close(s) ==
    IF s.buffer # << >>
    THEN [raised |-> FALSE, s |-> _new_buffer(s),
          out |-> << Msg("pub", <<"stream">>, [name |-> s.name, data |-> s.buffer],
                         s.parent_header, NoIdent, s.by) >>]
    ELSE [raised |-> FALSE, s |-> s, out |-> << >>]

\* OutStream.flush: the stream afterwards, the messages sent, and whether it raised.
flush(s) ==
    IF ~s.open
    THEN [raised |-> TRUE, s |-> s, out |-> << >>]
    ELSE IF s.buffer # << >>
         THEN [raised |-> FALSE, s |-> _new_buffer(s),
               out |-> << Msg("pub", <<"stream">>, [name |-> s.name, data |-> s.buffer],
                              s.parent_header, NoIdent, s.by) >>]
         ELSE [raised |-> FALSE, s |-> s, out |-> << >>]

\* OutStream.write of string at time t; writer is the request whose code writes.
write(s, string, t, writer) ==
    IF ~s.open
    THEN [raised |-> TRUE, s |-> s, out |-> << >>]
    ELSE LET b == [s EXCEPT !.buffer = @ \o string,
                            !.by = @ \o [i \in 1..Len(string) |-> writer]]
         IN  IF b.start <= 0
             THEN [raised |-> FALSE, s |-> [b EXCEPT !.start = t], out |-> << >>]
             ELSE IF t - b.start > flush_interval
                  THEN flush(b)
                  ELSE [raised |-> FALSE, s |-> b, out |-> << >>]

\* OutStream.writelines, the loop: write of each string in turn.  trace has, for
\* each write, the string, the stream it found and the number k of messages the
\* writes before it had sent.
RECURSIVE write_each(_, _, _, _)
write_each(s, sequence, t, writer) ==
    IF sequence = << >>
    THEN [s |-> s, out |-> << >>, trace |-> << >>]
    ELSE LET w == write(s, Head(sequence), t, writer)
             rest == write_each(w.s, Tail(sequence), t, writer)
         IN  [s |-> rest.s,
              out |-> w.out \o rest.out,
              trace |-> <<[string |-> Head(sequence), s |-> s, k |-> 0]>> \o
                        [i \in DOMAIN rest.trace |->
                            [rest.trace[i] EXCEPT !.k = @ + Len(w.out)]]]

\* OutStream.writelines
writelines(s, sequence, t, writer) ==
    IF ~s.open
    THEN [raised |-> TRUE, s |-> s, out |-> << >>, trace |-> << >>]
    ELSE LET e == write_each(s, sequence, t, writer)
         IN  [raised |-> FALSE, s |-> e.s, out |-> e.out, trace |-> e.trace]

\* ----------------------------------------------------------------- Kernel

\* The msg_id of a queued request.
IdOf(q) == q.msg.header.msg_id

\* The value of abort_local before _abort_queue has received anything.
Unbound == [bound |-> FALSE]

\* Kernel.__init__ and the streams the kernel's main() installs.
Init ==
    /\ pc = "idle"
    /\ reply_queue = << >>
    /\ cur = NoRequest
    /\ ip = 0
    /\ user_ns = << >>
    /\ history = << >>
    /\ streams = [stdout |-> OutStream("stdout"), stderr |-> OutStream("stderr")]
    /\ displayhook_parent = EmptyHeader
    /\ raw_input = NoRequest
    /\ abort_local = Unbound
    /\ sent = << >>
    /\ now = 1
    /\ next_id = 1
    /\ handled = << >>
    /\ backlog = {}
    /\ calls = << >>
    /\ input_reply = NoReply
    /\ ipns = ipnsdict
    /\ prior = NoPrior
    /\ autopx = FALSE
    /\ run_source = "InteractiveShell.run_source"
    /\ _original_run_source = NoAttribute
    /\ active_multiengine_client = None
    /\ ran = << >>
    /\ faults = 0

\* A client sends a request on the reply channel.
Arrive ==
    /\ UNCHANGED <<calls, input_reply, testing_vars, parallel_vars, faults>>
    /\ next_id <= MaxReq
    /\ pc \notin {"exited", "crashed"}
    /\ \E t \in msg_types \cup {connect_request} : \E content \in Contents(t) :
          LET msg == [header |-> [msg_id |-> next_id, msg_type |-> t],
                      msg_type |-> t, content |-> content]
          IN  reply_queue' = Append(reply_queue, [ident |-> IdentOf(next_id), msg |-> msg])
    /\ next_id' = next_id + 1
    /\ UNCHANGED <<pc, cur, ip, user_ns, history, streams, displayhook_parent,
                   raw_input, abort_local, sent, now, handled, backlog>>

\* Time passes.  The kernel reads the clock only in OutStream.write, which executing
\* code calls, so time that passed earlier is let pass once the code is executing.
Tick ==
    /\ UNCHANGED <<calls, input_reply, testing_vars, parallel_vars, faults>>
    /\ now < MaxTime
    /\ pc = "exec"
    /\ now' = now + 1
    /\ UNCHANGED <<pc, reply_queue, cur, ip, user_ns, history, streams, displayhook_parent,
                   raw_input, abort_local, sent, next_id, handled, backlog>>

\* time.sleep(0.1) on the bounded clock.
sleep(t) == IF t + SleepTicks > MaxTime THEN MaxTime ELSE t + SleepTicks

\* Faulty variant: the reply channel is also read while _raw_input waits.
Received_while_input(t) ==
    /\ pc \in {"idle", "input"}
    /\ reply_queue # << >>
    /\ Head(reply_queue).msg.msg_type \in t

\* Kernel.start: the blocking recv has a message and the handler lookup.
Received(t) ==
    /\ pc = "idle"
    /\ reply_queue # << >>
    /\ Head(reply_queue).msg.msg_type \in t

\* Faulty variant: a message type with no handler is answered with an error reply.
start_unknown_replies ==
    /\ UNCHANGED <<calls, input_reply, testing_vars, parallel_vars, faults>>
    /\ Received({connect_request})
    /\ reply_queue' = Tail(reply_queue)
    /\ sent' = Append(sent, Msg("reply", <<"connect", "reply">>, [status |-> "error"],
                                Head(reply_queue).msg, Head(reply_queue).ident, << >>))
    /\ UNCHANGED <<pc, cur, ip, user_ns, history, streams, displayhook_parent,
                   raw_input, abort_local, now, next_id, handled, backlog>>

\* Kernel.start, a message type with no handler: printed and ignored.
start_unknown ==
    /\ UNCHANGED <<calls, input_reply, testing_vars, parallel_vars, faults>>
    /\ Received({connect_request})
    /\ reply_queue' = Tail(reply_queue)
    /\ UNCHANGED <<pc, cur, ip, user_ns, history, streams, displayhook_parent,
                   raw_input, abort_local, sent, now, next_id, handled, backlog>>

\* Faulty variant: the status word of the error content is misspelt.
exc_content_misspelt(exc) ==
    [status |-> "err", traceback |-> format_exception(exc.ename, exc.evalue),
     ename |-> exc.ename, evalue |-> exc.evalue]

\* execute_request, the content of the pyerr message and of the error reply.
exc_content(exc) ==
    [status |-> "error", traceback |-> format_exception(exc.ename, exc.evalue),
     ename |-> exc.ename, evalue |-> exc.evalue]

\* Faulty variant: the error reply is built anew and leaves the exception value out.
reply_content_no_evalue(exc) ==
    IF exc # NoExc
    THEN [exc_content(exc) EXCEPT !.evalue = ""]
    ELSE [status |-> "ok", payload |-> << >>]

\* execute_request, the content of the reply that is sent.
reply_content(exc) ==
    IF exc # NoExc THEN exc_content(exc) ELSE [status |-> "ok", payload |-> << >>]

\* Faulty variant: only stderr is flushed before the reply.
flush_output_stderr_only(strs) ==
    LET fe == flush(strs.stderr)
    IN  [raised |-> fe.raised, streams |-> [strs EXCEPT !.stderr = fe.s], out |-> fe.out]

\* execute_request, "Flush output before sending the reply": stderr, then stdout.
flush_output(strs) ==
    LET fe == flush(strs.stderr)
        fo == flush(strs.stdout)
    IN  IF fe.raised
        THEN [raised |-> TRUE, streams |-> strs, out |-> << >>]
        ELSE IF fo.raised
             THEN [raised |-> TRUE, streams |-> [strs EXCEPT !.stderr = fe.s], out |-> fe.out]
             ELSE [raised |-> FALSE, streams |-> [stdout |-> fo.s, stderr |-> fe.s],
                   out |-> fe.out \o fo.out]

\* Faulty variant: the status is compared with the wrong word and no reply starts the drain.
starts_abort_never(reply_msg) == reply_msg.content.status = "aborted"

\* Faulty variant: the errors of the compiler do not start the drain.
starts_abort_runtime_only(reply_msg) ==
    /\ reply_msg.content.status = "error"
    /\ reply_msg.content.ename \notin {"SyntaxError", "OverflowError", "ValueError", "TypeError", "MemoryError"}

\* Faulty variant: the status is tested for truth, not compared, and every reply starts the drain.
starts_abort_always(reply_msg) == reply_msg.content.status # ""

\* execute_request: whether the reply just sent starts _abort_queue.
starts_abort(reply_msg) == reply_msg.content.status = "error"

\* execute_request, str(evalue) in the except clause: it runs the __str__ of the
\* exception's class, which raises for the Unprintable value.
str_raises(evalue) == evalue = Unprintable

\* execute_request from the end of exec on: the except/else clauses, the flush, the
\* reply and the call of _abort_queue.  who is the (ident, parent) of the handler,
\* exc what exec or the compiler raised, strs and log the streams and the messages
\* sent at that point.  What the except clause itself raises leaves start().
execute_reply_step(who, exc, strs, log) ==
    LET log1 == IF exc # NoExc
                THEN Append(log, Msg("pub", <<"pyerr">>, exc_content(exc), who.msg, NoIdent, << >>))
                ELSE log
        f == flush_output(strs)
        reply_msg == Msg("reply", execute_reply, reply_content(exc), who.msg, who.ident, << >>)
    IN  /\ cur' = NoRequest
        /\ ip' = 0
        /\ abort_local' = Unbound
        /\ IF exc # NoExc /\ str_raises(exc.evalue)
           THEN /\ streams' = strs
                /\ sent' = log
                /\ pc' = "crashed"
                /\ UNCHANGED backlog
           ELSE /\ streams' = f.streams
                /\ IF f.raised
                   THEN /\ sent' = log1 \o f.out
                        /\ pc' = "crashed"
                        /\ UNCHANGED backlog
                   ELSE /\ sent' = (log1 \o f.out) \o <<reply_msg>>
                        /\ pc' = IF starts_abort(reply_msg) THEN "abort" ELSE "idle"
                        /\ backlog' = IF reply_msg.content.status = "error"
                                      THEN backlog \cup
                                           {[id |-> IdOf(reply_queue'[i]), cause |-> who.msg.header.msg_id] :
                                               i \in 1..Len(reply_queue')}
                                      ELSE backlog

\* Faulty variant: a message without content.code is answered with an error reply.
execute_request_bad_replies ==
    /\ UNCHANGED <<calls, input_reply, testing_vars, parallel_vars, faults>>
    /\ Received({execute_request})
    /\ "code" \notin DOMAIN Head(reply_queue).msg.content
    /\ reply_queue' = Tail(reply_queue)
    /\ handled' = Append(handled, Head(reply_queue))
    /\ sent' = Append(sent, Msg("reply", execute_reply, [status |-> "error"],
                                Head(reply_queue).msg, Head(reply_queue).ident, << >>))
    /\ UNCHANGED <<pc, cur, ip, user_ns, history, streams, displayhook_parent,
                   raw_input, abort_local, now, next_id, backlog>>

\* execute_request of a message without content.code: printed and dropped.
execute_request_bad ==
    /\ UNCHANGED <<calls, input_reply, testing_vars, parallel_vars, faults>>
    /\ Received({execute_request})
    /\ "code" \notin DOMAIN Head(reply_queue).msg.content
    /\ reply_queue' = Tail(reply_queue)
    /\ handled' = Append(handled, Head(reply_queue))
    /\ UNCHANGED <<pc, cur, ip, user_ns, history, streams, displayhook_parent,
                   raw_input, abort_local, sent, now, next_id, backlog>>

\* Faulty variant: pyin is sent without its parent.
pyin_msg_no_parent(parent) ==
    Msg("pub", <<"pyin">>, [code |-> parent.content.code], EmptyHeader, NoIdent, << >>)

\* execute_request, the pyin message.
pyin_msg(parent) ==
    Msg("pub", <<"pyin">>, [code |-> parent.content.code], parent, NoIdent, << >>)

\* execute_request up to exec: pyin, the compiler, raw_input and the set_parent calls.
execute_request_start ==
    /\ UNCHANGED <<calls, input_reply, testing_vars, parallel_vars, faults>>
    /\ Received({execute_request})
    /\ "code" \in DOMAIN Head(reply_queue).msg.content
    /\ LET who == Head(reply_queue)
           parent == who.msg
           comp_code == compiler(parent.content.code)
           log == Append(sent, pyin_msg(parent))
           tagged == [n \in DOMAIN streams |-> set_parent(streams[n], parent)]
       IN  /\ reply_queue' = Tail(reply_queue)
           /\ handled' = Append(handled, who)
           /\ CASE comp_code.kind = "raise" ->
                      /\ execute_reply_step(who, [ename |-> comp_code.ename, evalue |-> comp_code.evalue],
                                            streams, log)
                      /\ UNCHANGED <<raw_input, displayhook_parent>>
                [] comp_code.kind = "none" ->
                      /\ raw_input' = who
                      /\ displayhook_parent' = extract_header(parent)
                      /\ execute_reply_step(who, [ename |-> "TypeError", evalue |-> "exec() arg 1 must be code"],
                                            tagged, log)
                [] comp_code.kind = "code" ->
                      /\ raw_input' = who
                      /\ displayhook_parent' = extract_header(parent)
                      /\ streams' = tagged
                      /\ sent' = log
                      /\ cur' = who
                      /\ ip' = 1
                      /\ pc' = "exec"
                      /\ UNCHANGED <<abort_local, backlog>>
    /\ UNCHANGED <<user_ns, history, now, next_id>>

\* The statements of the code object being executed.
stmts == compiler(cur.msg.content.code).stmts

\* Faulty variant: the code is executed in a fresh namespace that then replaces user_ns.
bind_fresh(ns, name, value) == (name :> value)

\* exec(comp_code, user_ns, user_ns): a name is bound in user_ns.
bind(ns, name, value) == (name :> value) @@ ns

\* Faulty variant: when the code raises, the names it bound before are taken out of
\* user_ns again.
exec_stmt_rolls_back ==
    /\ UNCHANGED <<calls, input_reply, testing_vars, parallel_vars, faults>>
    /\ pc = "exec"
    /\ ip <= Len(stmts)
    /\ stmts[ip][1] \in {"bind", "copy", "raise"}
    /\ UNCHANGED <<reply_queue, history, displayhook_parent, raw_input, now, next_id, handled>>
    /\ LET st == stmts[ip]
           bound == {stmts[k][2] : k \in {j \in 1..(ip - 1) : stmts[j][1] \in {"bind", "copy"}}}
       IN  CASE st[1] = "bind" ->
                   /\ user_ns' = bind(user_ns, st[2], st[3])
                   /\ ip' = ip + 1
                   /\ UNCHANGED <<pc, cur, streams, abort_local, sent, backlog>>
             [] st[1] = "copy" /\ st[3] \in DOMAIN user_ns ->
                   /\ user_ns' = bind(user_ns, st[2], user_ns[st[3]])
                   /\ ip' = ip + 1
                   /\ UNCHANGED <<pc, cur, streams, abort_local, sent, backlog>>
             [] st[1] = "copy" /\ st[3] \notin DOMAIN user_ns ->
                   /\ execute_reply_step(cur, [ename |-> "NameError", evalue |-> st[3]], streams, sent)
                   /\ UNCHANGED user_ns
             [] st[1] = "raise" ->
                   /\ execute_reply_step(cur, [ename |-> st[2], evalue |-> st[3]], streams, sent)
                   /\ user_ns' = [n \in DOMAIN user_ns \ bound |-> user_ns[n]]

\* exec, one statement that neither writes nor asks for input: a binding, or a raise.
exec_stmt ==
    /\ UNCHANGED <<calls, input_reply, testing_vars, parallel_vars, faults>>
    /\ pc = "exec"
    /\ ip <= Len(stmts)
    /\ stmts[ip][1] \in {"bind", "copy", "raise"}
    /\ UNCHANGED <<reply_queue, history, displayhook_parent, raw_input, now, next_id, handled>>
    /\ LET st == stmts[ip]
       IN  CASE st[1] = "bind" ->
                   /\ user_ns' = bind(user_ns, st[2], st[3])
                   /\ ip' = ip + 1
                   /\ UNCHANGED <<pc, cur, streams, abort_local, sent, backlog>>
             [] st[1] = "copy" /\ st[3] \in DOMAIN user_ns ->
                   /\ user_ns' = bind(user_ns, st[2], user_ns[st[3]])
                   /\ ip' = ip + 1
                   /\ UNCHANGED <<pc, cur, streams, abort_local, sent, backlog>>
             [] st[1] = "copy" /\ st[3] \notin DOMAIN user_ns ->
                   /\ execute_reply_step(cur, [ename |-> "NameError", evalue |-> st[3]], streams, sent)
                   /\ UNCHANGED user_ns
             [] st[1] = "raise" ->
                   /\ execute_reply_step(cur, [ename |-> st[2], evalue |-> st[3]], streams, sent)
                   /\ UNCHANGED user_ns

\* exec, a statement that writes a text to sys.stdout or sys.stderr.
exec_write ==
    /\ UNCHANGED <<calls, input_reply, testing_vars, parallel_vars, faults>>
    /\ pc = "exec"
    /\ ip <= Len(stmts)
    /\ stmts[ip][1] = "write"
    /\ UNCHANGED <<reply_queue, user_ns, history, displayhook_parent, raw_input, now, next_id, handled>>
    /\ LET st == stmts[ip]
           w == write(streams[st[2]], st[3], now, cur.msg.header.msg_id)
           strs == [streams EXCEPT ![st[2]] = w.s]
       IN  IF w.raised
           THEN execute_reply_step(cur, [ename |-> "ValueError", evalue |-> "I/O operation on closed file"],
                                   strs, sent \o w.out)
           ELSE /\ streams' = strs
                /\ sent' = sent \o w.out
                /\ ip' = ip + 1
                /\ UNCHANGED <<pc, cur, abort_local, backlog>>

\* exec ran to the end of the code: the else clause, the flush and the reply.
exec_return ==
    /\ UNCHANGED <<calls, input_reply, testing_vars, parallel_vars, faults>>
    /\ pc = "exec"
    /\ ip > Len(stmts)
    /\ UNCHANGED <<reply_queue, user_ns, history, displayhook_parent, raw_input, now, next_id, handled>>
    /\ execute_reply_step(cur, NoExc, streams, sent)

\* Faulty variant: _raw_input sends the input_request without flushing the streams.
raw_input_request_no_flush ==
    /\ UNCHANGED <<calls, input_reply, testing_vars, parallel_vars, faults>>
    /\ pc = "exec"
    /\ ip <= Len(stmts)
    /\ stmts[ip][1] = "input"
    /\ UNCHANGED <<reply_queue, user_ns, history, displayhook_parent, raw_input, now, next_id, handled>>
    /\ sent' = Append(sent, Msg("req", <<"input", "request">>, [prompt |-> stmts[ip][3]],
                                raw_input.msg, NoIdent, << >>))
    /\ pc' = "input"
    /\ UNCHANGED <<cur, ip, streams, abort_local, backlog>>

\* _raw_input up to the blocking recv: the flush and the input_request.
raw_input_request ==
    /\ UNCHANGED <<calls, input_reply, testing_vars, parallel_vars, faults>>
    /\ pc = "exec"
    /\ ip <= Len(stmts)
    /\ stmts[ip][1] = "input"
    /\ UNCHANGED <<reply_queue, user_ns, history, displayhook_parent, raw_input, now, next_id, handled>>
    /\ LET f == flush_output(streams)
           msg == Msg("req", <<"input", "request">>, [prompt |-> stmts[ip][3]],
                      raw_input.msg, NoIdent, << >>)
       IN  IF f.raised
           THEN execute_reply_step(cur, [ename |-> "ValueError", evalue |-> "I/O operation on closed file"],
                                   f.streams, sent \o f.out)
           ELSE /\ streams' = f.streams
                /\ sent' = (sent \o f.out) \o <<msg>>
                /\ pc' = "input"
                /\ UNCHANGED <<cur, ip, abort_local, backlog>>

\* Faulty variant: a reply without value gives None, not ''.
input_value_none(reply) ==
    IF "value" \in DOMAIN reply.content THEN reply.content.value ELSE None

\* _raw_input from the recv on: the value of the reply, '' when it has none.
input_value(reply) ==
    IF "value" \in DOMAIN reply.content THEN reply.content.value ELSE ""

\* _raw_input returns and the assignment of its value is executed.
raw_input_reply ==
    /\ UNCHANGED <<calls, testing_vars, parallel_vars, faults>>
    /\ pc = "input"
    /\ \E reply \in InputReplies :
          /\ input_reply' = reply
          /\ user_ns' = bind(user_ns, stmts[ip][2], input_value(reply))
    /\ ip' = ip + 1
    /\ pc' = "exec"
    /\ UNCHANGED <<reply_queue, cur, history, streams, displayhook_parent, raw_input,
                   abort_local, sent, now, next_id, handled, backlog>>

\* str.startswith, on the names and texts of the model.
startswith(name, text) == text = "" \/ text = name

\* KernelCompleter.complete: the names of the namespace that start with text.
complete(ns, line, text) == {n \in DOMAIN ns : startswith(n, text)}

\* complete_request and _complete.
complete_request_step ==
    /\ UNCHANGED <<calls, input_reply, testing_vars, parallel_vars, faults>>
    /\ Received({complete_request})
    /\ LET who == Head(reply_queue)
           content == who.msg.content
       IN  /\ reply_queue' = Tail(reply_queue)
           /\ handled' = Append(handled, who)
           /\ IF {"line", "text"} \subseteq DOMAIN content
              THEN /\ sent' = Append(sent, Msg("reply", complete_reply,
                                               [matches |-> complete(user_ns, content.line, content.text),
                                                status |-> "ok"],
                                               who.msg, who.ident, << >>))
                   /\ UNCHANGED pc
              ELSE /\ pc' = "crashed"
                   /\ UNCHANGED sent
    /\ UNCHANGED <<cur, ip, user_ns, history, streams, displayhook_parent,
                   raw_input, abort_local, now, next_id, backlog>>

\* builtins.__dict__, as far as the model's names reach into it.
builtins == [int |-> "int", len |-> "len"]

\* getattr(symbol, name, None) on the objects of the model: the ints "1" and "2",
\* the strings "v" and "", the type int, the function len, None.
getattr(symbol, name) ==
    CASE symbol \in {"1", "2"} /\ name = "real" -> symbol
      [] symbol = "int" /\ name = "real" -> "int.real"
      [] OTHER -> None

\* getattr(symbol, '__doc__', '')
doc_of(symbol) ==
    CASE symbol \in {"1", "2", "int"} -> "int(x=0) -> integer"
      [] symbol \in {"v", ""} -> "str(object='') -> str"
      [] symbol = "int.real" -> "the real part of a complex number"
      [] symbol = "len" -> "Return the number of items in a container."
      [] symbol = None -> None
      [] OTHER -> ""

\* dict.get(key, None)
get(d, key) == IF key \in DOMAIN d THEN d[key] ELSE None

\* _symbol_from_context, the loop over context[1:]: (symbol, leftover).
RECURSIVE walk(_, _)
walk(symbol, context) ==
    IF context = << >>
    THEN <<symbol, << >> >>
    ELSE LET new_symbol == getattr(symbol, Head(context))
         IN  IF new_symbol = None
             THEN <<symbol, context>>
             ELSE walk(new_symbol, Tail(context))

\* Kernel._symbol_from_context
_symbol_from_context(ns, context) ==
    IF context = << >>
    THEN <<None, context>>
    ELSE LET in_ns == get(ns, context[1])
             symbol == IF in_ns = None THEN get(builtins, context[1]) ELSE in_ns
         IN  IF symbol = None
             THEN <<None, context>>
             ELSE walk(symbol, Tail(context))

\* Faulty variant: the docstring of the deepest symbol that resolved is returned
\* whether or not segments are left over.
_object_info_deepest(ns, context) ==
    LET found == _symbol_from_context(ns, context)
    IN  [docstring |-> IF found[1] # None THEN doc_of(found[1]) ELSE ""]

\* Kernel._object_info
_object_info(ns, context) ==
    LET found == _symbol_from_context(ns, context)
    IN  [docstring |-> IF found[1] # None /\ found[2] = << >> THEN doc_of(found[1]) ELSE ""]

\* object_info_request
object_info_request_step ==
    /\ UNCHANGED <<calls, input_reply, testing_vars, parallel_vars, faults>>
    /\ Received({object_info_request})
    /\ LET who == Head(reply_queue)
           content == who.msg.content
       IN  /\ reply_queue' = Tail(reply_queue)
           /\ handled' = Append(handled, who)
           /\ IF "oname" \in DOMAIN content
              THEN /\ sent' = Append(sent, Msg("reply", object_info_reply,
                                               _object_info(user_ns, content.oname),
                                               who.msg, who.ident, << >>))
                   /\ UNCHANGED pc
              ELSE /\ pc' = "crashed"
                   /\ UNCHANGED sent
    /\ UNCHANGED <<cur, ip, user_ns, history, streams, displayhook_parent,
                   raw_input, abort_local, now, next_id, backlog>>

\* Faulty variant: the shutdown reply is broadcast before it is sent to the requester.
shutdown_request_pub_first ==
    /\ UNCHANGED <<calls, input_reply, testing_vars, parallel_vars, faults>>
    /\ Received({shutdown_request})
    /\ LET who == Head(reply_queue)
           content == who.msg.content
       IN  /\ reply_queue' = Tail(reply_queue)
           /\ handled' = Append(handled, who)
           /\ sent' = sent \o << Msg("pub", shutdown_reply, content, who.msg, who.ident, << >>),
                                 Msg("reply", shutdown_reply, content, who.msg, who.ident, << >>) >>
    /\ now' = sleep(now)
    /\ pc' = "exited"
    /\ UNCHANGED <<cur, ip, user_ns, history, streams, displayhook_parent,
                   raw_input, abort_local, next_id, backlog>>

\* shutdown_request: the reply on both sockets, the sleep and sys.exit(0).
shutdown_request_step ==
    /\ UNCHANGED <<calls, input_reply, testing_vars, parallel_vars, faults>>
    /\ Received({shutdown_request})
    /\ LET who == Head(reply_queue)
           content == who.msg.content
       IN  /\ reply_queue' = Tail(reply_queue)
           /\ handled' = Append(handled, who)
           /\ sent' = sent \o << Msg("reply", shutdown_reply, content, who.msg, who.ident, << >>),
                                 Msg("pub", shutdown_reply, content, who.msg, who.ident, << >>) >>
    /\ now' = sleep(now)
    /\ pc' = "exited"
    /\ UNCHANGED <<cur, ip, user_ns, history, streams, displayhook_parent,
                   raw_input, abort_local, next_id, backlog>>

\* _abort_queue: the message type of the reply to an aborted request.
reply_type(msg_type) == <<msg_type[1], "reply">>

\* Faulty variant: the loop of the drain does not end when the channel is empty.
abort_queue_done_polls_on ==
    /\ pc = "abort"
    /\ reply_queue = << >>
    /\ UNCHANGED vars

\* Faulty variant: the drain is a timed wait that ends whatever the channel holds.
abort_queue_done_after_wait ==
    /\ UNCHANGED <<calls, input_reply, testing_vars, parallel_vars, faults>>
    /\ pc = "abort"
    /\ pc' = "idle"
    /\ UNCHANGED <<reply_queue, cur, ip, user_ns, history, streams, displayhook_parent,
                   raw_input, abort_local, sent, now, next_id, handled, backlog>>

\* _abort_queue: the non-blocking recv finds nothing (EAGAIN) and the loop ends;
\* execute_request returns to start().
abort_queue_done ==
    /\ UNCHANGED <<calls, input_reply, testing_vars, parallel_vars, faults>>
    /\ pc = "abort"
    /\ reply_queue = << >>
    /\ pc' = "idle"
    /\ UNCHANGED <<reply_queue, cur, ip, user_ns, history, streams, displayhook_parent,
                   raw_input, abort_local, sent, now, next_id, handled, backlog>>

\* Faulty variant: the drain answers the request that arrived last first.
abort_queue_step_newest_first ==
    /\ UNCHANGED <<calls, input_reply, testing_vars, parallel_vars, faults>>
    /\ pc = "abort"
    /\ reply_queue # << >>
    /\ LET got == reply_queue[Len(reply_queue)]
       IN  /\ reply_queue' = SubSeq(reply_queue, 1, Len(reply_queue) - 1)
           /\ abort_local' = [bound |-> TRUE, ident |-> got.ident, msg |-> got.msg]
           /\ sent' = Append(sent, Msg("reply", <<got.msg.msg_type[1], "reply">>, [status |-> "aborted"],
                                       got.msg, got.ident, << >>))
    /\ now' = sleep(now)
    /\ UNCHANGED <<pc, cur, ip, user_ns, history, streams, displayhook_parent,
                   raw_input, next_id, handled, backlog>>

\* Faulty variant: the drain hands a shutdown_request to its handler.
abort_queue_step_serves_shutdown ==
    /\ UNCHANGED <<calls, input_reply, testing_vars, parallel_vars, faults>>
    /\ pc = "abort"
    /\ reply_queue # << >>
    /\ LET got == Head(reply_queue)
       IN  /\ reply_queue' = Tail(reply_queue)
           /\ abort_local' = [bound |-> TRUE, ident |-> got.ident, msg |-> got.msg]
           /\ IF got.msg.msg_type = shutdown_request
              THEN /\ sent' = sent \o
                        << Msg("reply", shutdown_reply, got.msg.content, got.msg, got.ident, << >>),
                           Msg("pub", shutdown_reply, got.msg.content, got.msg, got.ident, << >>) >>
                   /\ pc' = "exited"
              ELSE /\ sent' = Append(sent, Msg("reply", reply_type(got.msg.msg_type),
                                               [status |-> "aborted"], got.msg, got.ident, << >>))
                   /\ UNCHANGED pc
    /\ now' = sleep(now)
    /\ UNCHANGED <<cur, ip, user_ns, history, streams, displayhook_parent,
                   raw_input, next_id, handled, backlog>>

\* Faulty variant: the drain makes the drained request the parent of the streams.
abort_queue_step_sets_parent ==
    /\ UNCHANGED <<calls, input_reply, testing_vars, parallel_vars, faults>>
    /\ pc = "abort"
    /\ reply_queue # << >>
    /\ LET got == Head(reply_queue)
       IN  /\ reply_queue' = Tail(reply_queue)
           /\ abort_local' = [bound |-> TRUE, ident |-> got.ident, msg |-> got.msg]
           /\ sent' = Append(sent, Msg("reply", reply_type(got.msg.msg_type), [status |-> "aborted"],
                                       got.msg, got.ident, << >>))
           /\ streams' = [n \in DOMAIN streams |-> set_parent(streams[n], got.msg)]
    /\ now' = sleep(now)
    /\ UNCHANGED <<pc, cur, ip, user_ns, history, displayhook_parent,
                   raw_input, next_id, handled, backlog>>

\* _abort_queue, one iteration that receives a message: the aborted reply and the sleep.
abort_queue_step ==
    /\ UNCHANGED <<calls, input_reply, testing_vars, parallel_vars, faults>>
    /\ pc = "abort"
    /\ reply_queue # << >>
    /\ LET got == Head(reply_queue)
       IN  /\ reply_queue' = Tail(reply_queue)
           /\ abort_local' = [bound |-> TRUE, ident |-> got.ident, msg |-> got.msg]
           /\ sent' = Append(sent, Msg("reply", reply_type(got.msg.msg_type), [status |-> "aborted"],
                                       got.msg, got.ident, << >>))
    /\ now' = sleep(now)
    /\ UNCHANGED <<pc, cur, ip, user_ns, history, streams, displayhook_parent,
                   raw_input, next_id, handled, backlog>>

Next ==
    \/ Arrive
    \/ Tick
    \/ start_unknown
    \/ execute_request_bad
    \/ execute_request_start
    \/ exec_stmt
    \/ exec_write
    \/ exec_return
    \/ raw_input_request
    \/ raw_input_reply
    \/ complete_request_step
    \/ object_info_request_step
    \/ shutdown_request_step
    \/ abort_queue_step
    \/ abort_queue_done

Spec == Init /\ [][Next]_vars

\* ------------------------------------ the kernel under code that raises anything

\* The requests of the second specification: code that raises SystemExit,
\* KeyboardInterrupt and an exception that cannot be printed, a completion request
\* with and without its text field, and the shutdown.
EdgeContents(msg_type) ==
    CASE msg_type = execute_request -> {[code |-> c] : c \in EdgeCodes \cup {"x = 1"}}
      [] msg_type = complete_request -> {[line |-> "x", text |-> "x"], [line |-> "x"]}
      [] msg_type = shutdown_request -> {[restart |-> "no"]}

\* A client sends one of these requests on the reply channel.
ArriveEdge ==
    /\ UNCHANGED <<calls, input_reply, testing_vars, parallel_vars, faults>>
    /\ next_id <= MaxReq
    /\ pc \notin {"exited", "crashed"}
    /\ \E t \in {execute_request, complete_request, shutdown_request} : \E content \in EdgeContents(t) :
          LET msg == [header |-> [msg_id |-> next_id, msg_type |-> t],
                      msg_type |-> t, content |-> content]
          IN  reply_queue' = Append(reply_queue, [ident |-> IdentOf(next_id), msg |-> msg])
    /\ next_id' = next_id + 1
    /\ UNCHANGED <<pc, cur, ip, user_ns, history, streams, displayhook_parent,
                   raw_input, abort_local, sent, now, handled, backlog>>

NextEdge ==
    \/ ArriveEdge
    \/ execute_request_start
    \/ exec_stmt
    \/ exec_return
    \/ complete_request_step
    \/ shutdown_request_step
    \/ abort_queue_step
    \/ abort_queue_done

SpecEdge == Init /\ [][NextEdge]_vars

\* The second specification with a kernel process that keeps running: an iteration
\* of the drain that can be made is made.
FairSpecEdge ==
    /\ SpecEdge
    /\ WF_vars(abort_queue_step)
    /\ WF_vars(abort_queue_done)

\* ------------------------------------------------- the kernel under object_info

\* The requests of the third specification: code that binds an int to x and None to
\* the name of a built-in, and object_info_requests for names with one, two and
\* three segments, for a name bound nowhere, for the empty name and without oname.
InfoContents(msg_type) ==
    CASE msg_type = execute_request -> {[code |-> "x = 1"], [code |-> "len = None"]}
      [] msg_type = object_info_request ->
            {[oname |-> o] : o \in {<<"x">>, <<"x", "real", "foo">>, <<"int", "real">>,
                                    <<"int", "real", "foo">>, <<"len">>, <<"nope">>, <<"">>}}
            \cup {[detail_level |-> "0"]}

\* A client sends one of these requests on the reply channel.
ArriveInfo ==
    /\ UNCHANGED <<calls, input_reply, testing_vars, parallel_vars, faults>>
    /\ next_id <= MaxReq
    /\ pc \notin {"exited", "crashed"}
    /\ \E t \in {execute_request, object_info_request} : \E content \in InfoContents(t) :
          LET msg == [header |-> [msg_id |-> next_id, msg_type |-> t],
                      msg_type |-> t, content |-> content]
          IN  reply_queue' = Append(reply_queue, [ident |-> IdentOf(next_id), msg |-> msg])
    /\ next_id' = next_id + 1
    /\ UNCHANGED <<pc, cur, ip, user_ns, history, streams, displayhook_parent,
                   raw_input, abort_local, sent, now, handled, backlog>>

NextInfo ==
    \/ ArriveInfo
    \/ execute_request_start
    \/ exec_stmt
    \/ exec_return
    \/ object_info_request_step

SpecInfo == Init /\ [][NextInfo]_vars

\* ------------------------------------------------- the OutStream on its own

\* Number of calls made on the stream in one behaviour.
MaxCalls == 4

\* The requests whose header set_parent is given.
Parents ==
    {[header |-> [msg_id |-> i, msg_type |-> execute_request],
      msg_type |-> execute_request, content |-> [code |-> "print('ab')"]] : i \in 1..2}

\* The strings written: the empty string and two texts that differ.
Texts == {<< >>, <<"a">>, <<"b">>}

\* The variables an OutStream does not touch.
kernel_vars == <<pc, reply_queue, cur, ip, user_ns, history, displayhook_parent,
                 raw_input, abort_local, next_id, handled, backlog, input_reply>>

\* The sequences of strings given to writelines.
Lines == {<< <<"a">>, <<"b">> >>}

\* The entry of the log for the call op(arg) on sys.stdout: the time, the stream and
\* the number of messages sent at the moment of the call, and whether it raised.
Entry(op, arg, raised) ==
    [op |-> op, arg |-> arg, t |-> now, s |-> streams["stdout"], n |-> Len(sent),
     raised |-> raised]

\* The call op(arg) on sys.stdout is logged.
Called(op, arg, raised) == calls' = Append(calls, Entry(op, arg, raised))

\* sys.stdout.set_parent(parent)
call_set_parent ==
    /\ Len(calls) < MaxCalls
    /\ \E parent \in Parents :
          /\ streams' = [streams EXCEPT !["stdout"] = set_parent(@, parent)]
          /\ Called("set_parent", parent, FALSE)
    /\ UNCHANGED <<sent, now>>
    /\ UNCHANGED <<kernel_vars, testing_vars, parallel_vars, faults>>

\* sys.stdout.write(string)
call_write ==
    /\ Len(calls) < MaxCalls
    /\ \E string \in Texts :
          LET w == write(streams["stdout"], string, now, 0)
          IN  /\ streams' = [streams EXCEPT !["stdout"] = w.s]
              /\ sent' = sent \o w.out
              /\ Called("write", string, w.raised)
    /\ UNCHANGED now
    /\ UNCHANGED <<kernel_vars, testing_vars, parallel_vars, faults>>

\* sys.stdout.writelines(sequence): the call is logged, and after it the calls of
\* write that it makes.
call_writelines ==
    /\ \E sequence \in Lines :
          LET w == writelines(streams["stdout"], sequence, now, 0)
          IN  /\ Len(calls) + Len(w.trace) < MaxCalls
              /\ streams' = [streams EXCEPT !["stdout"] = w.s]
              /\ sent' = sent \o w.out
              /\ calls' = Append(calls, Entry("writelines", sequence, w.raised)) \o
                             [i \in DOMAIN w.trace |->
                                 [op |-> "write", arg |-> w.trace[i].string, t |-> now,
                                  s |-> w.trace[i].s, n |-> Len(sent) + w.trace[i].k,
                                  raised |-> FALSE]]
    /\ UNCHANGED now
    /\ UNCHANGED <<kernel_vars, testing_vars, parallel_vars, faults>>

\* sys.stdout.flush()
call_flush ==
    /\ Len(calls) < MaxCalls
    /\ LET f == flush(streams["stdout"])
       IN  /\ streams' = [streams EXCEPT !["stdout"] = f.s]
           /\ sent' = sent \o f.out
           /\ Called("flush", << >>, f.raised)
    /\ UNCHANGED now
    /\ UNCHANGED <<kernel_vars, testing_vars, parallel_vars, faults>>

\* sys.stdout.close()
call_close ==
    /\ Len(calls) < MaxCalls
    /\ streams' = [streams EXCEPT !["stdout"] = close(@)]
    /\ Called("close", << >>, FALSE)
    /\ UNCHANGED <<sent, now>>
    /\ UNCHANGED <<kernel_vars, testing_vars, parallel_vars, faults>>

\* Time passes between two calls.
Elapse ==
    /\ now < MaxTime
    /\ now' = now + 1
    /\ UNCHANGED <<streams, sent, calls>>
    /\ UNCHANGED <<kernel_vars, testing_vars, parallel_vars, faults>>

NextStream ==
    \/ call_set_parent
    \/ call_write
    \/ call_writelines
    \/ call_flush
    \/ call_close
    \/ Elapse

SpecStream == Init /\ [][NextStream]_vars

\* ------------------------------------------- the kernel under transport errors
\* The second specification with a reply channel whose non-blocking recv can also fail
\* with a ZMQError that is not EAGAIN.

\* Number of transport errors in one behaviour.
MaxFaults == 2

\* _abort_queue, one iteration in which recv raises a ZMQError whose errno is not
\* EAGAIN: the except clause does not break, and the statements after the try run
\* with the locals ident and msg as the previous iteration left them.  On the first
\* iteration they are unbound, and the UnboundLocalError leaves _abort_queue,
\* execute_request and start().
abort_queue_fault ==
    /\ UNCHANGED <<calls, input_reply, testing_vars, parallel_vars>>
    /\ pc = "abort"
    /\ faults < MaxFaults
    /\ faults' = faults + 1
    /\ IF abort_local.bound
       THEN /\ sent' = Append(sent, Msg("reply", reply_type(abort_local.msg.msg_type),
                                        [status |-> "aborted"], abort_local.msg,
                                        abort_local.ident, << >>))
            /\ now' = sleep(now)
            /\ UNCHANGED pc
       ELSE /\ pc' = "crashed"
            /\ UNCHANGED <<sent, now>>
    /\ UNCHANGED <<reply_queue, cur, ip, user_ns, history, streams, displayhook_parent,
                   raw_input, abort_local, next_id, handled, backlog>>

NextFault ==
    \/ ArriveEdge
    \/ execute_request_start
    \/ exec_stmt
    \/ exec_return
    \/ complete_request_step
    \/ shutdown_request_step
    \/ abort_queue_step
    \/ abort_queue_fault
    \/ abort_queue_done

SpecFault == Init /\ [][NextFault]_vars

\* --------------------------------------- the kernel under code that asks for input
\* The kernel with execute_requests whose code writes to both streams and then calls
\* raw_input, or calls raw_input at once.

\* The code that writes to stdout and stderr before it asks for input.
WritesThenAsks == "sys.stdout.write('a'); sys.stderr.write('e'); y = raw_input('p')"

\* The codes of this specification.
InputCodes == {WritesThenAsks, "y = raw_input('p')"}

\* A client sends an execute_request with one of these codes.
ArriveInput ==
    /\ UNCHANGED <<calls, input_reply, testing_vars, parallel_vars, faults>>
    /\ next_id <= MaxReq
    /\ pc \notin {"exited", "crashed"}
    /\ \E code \in InputCodes :
          LET msg == [header |-> [msg_id |-> next_id, msg_type |-> execute_request],
                      msg_type |-> execute_request, content |-> [code |-> code]]
          IN  reply_queue' = Append(reply_queue, [ident |-> IdentOf(next_id), msg |-> msg])
    /\ next_id' = next_id + 1
    /\ UNCHANGED <<pc, cur, ip, user_ns, history, streams, displayhook_parent,
                   raw_input, abort_local, sent, now, handled, backlog>>

NextInput ==
    \/ ArriveInput
    \/ Tick
    \/ execute_request_start
    \/ exec_write
    \/ raw_input_request
    \/ raw_input_reply
    \/ exec_return

SpecInput == Init /\ [][NextInput]_vars

\* -------------------------------------------------------------- ipnsdict
\* The test namespace of IPython.testing.globalipapp on its own: update, clear and
\* plain item assignment are called on one ipnsdict, in any order.

\* The dicts given to update.
Others == {<< >>, "a" :> 1, "a" :> 2, "b" :> 2, "_" :> 1}

\* An argument that is a dict of the caller.
Literal(other) == [ref |-> FALSE, val |-> other]

\* An argument that is the _savedict of the ipnsdict itself (the same object, not a copy).
SavedictArg == [ref |-> TRUE, val |-> << >>]

\* What the argument other holds at the moment it is read.
Value(d, other) == IF other.ref THEN d._savedict ELSE other.val

\* dict.update(d, other)
dict_update(d, other) == other @@ d

\* dict.pop(d, key, None)
dict_pop(d, key) == [k \in DOMAIN d \ {key} |-> d[k]]

\* d[key] = value
dict_setitem(d, key, value) == (key :> value) @@ d

\* ipnsdict._checkpoint: _savedict is emptied and filled with the dict's contents.
_checkpoint(d) == [d EXCEPT !._savedict = dict_update(<< >>, d.self)]

\* ipnsdict.update(other): other is read after the checkpoint was taken.
update(d, other) ==
    LET c == _checkpoint(d)
        u == dict_update(c.self, Value(c, other))
        p == dict_pop(u, "_")
    IN  [c EXCEPT !.self = dict_setitem(p, "__builtins__", builtins)]

\* ipnsdict.clear: dict.clear(self), then self.update(self._savedict).
clear(d) == update([d EXCEPT !.self = << >>], SavedictArg)

\* The variables an ipnsdict does not touch.
not_testing_vars == <<kernel_vars, streams, sent, now, calls, parallel_vars, faults>>

\* ns.update(other)
ns_update ==
    /\ \E other \in Others : ipns' = update(ipns, Literal(other))
    /\ prior' = [taken |-> TRUE, held |-> ipns.self]
    /\ UNCHANGED not_testing_vars

\* ns.clear()
ns_clear ==
    /\ ipns' = clear(ipns)
    /\ UNCHANGED prior
    /\ UNCHANGED not_testing_vars

\* ns[key] = value, as test code executed in the namespace does.
ns_setitem ==
    /\ \E key \in {"a", "_"}, value \in {1, 2} :
          ipns' = [ipns EXCEPT !.self = dict_setitem(@, key, value)]
    /\ UNCHANGED prior
    /\ UNCHANGED not_testing_vars

NextNs ==
    \/ ns_update
    \/ ns_clear
    \/ ns_setitem

SpecNs == Init /\ [][NextNs]_vars

\* -------------------------------------------------------------- %autopx
\* The parallel magics of IPython.extensions.parallelmagic on their own: a multiengine
\* client is activated, %autopx is called, and sources are given to shell.run_source.

\* Number of calls of %autopx and of shell.run_source in one behaviour.
MaxRan == 2

\* The method ParalleMagic installs as the shell's run_source.
pxrun_source == "ParalleMagic.pxrun_source"

\* The run_source methods the shell can have apart from pxrun_source.
ShellRunSources == {"InteractiveShell.run_source", "custom.run_source"}

\* The sources that call the magic, as the shell's prefilter writes them.
AutopxSources == {"get_ipython().magic(\"%autopx\")", "get_ipython().magic(\"autopx\")"}

\* The sources typed at the prompt.
Sources == AutopxSources \cup {"a = 10", "a = )", "if a:"}

\* ipself.compile(usource, symbol, ...): "error" when it raises, None for incomplete
\* input, "code" otherwise.
px_compile(source) ==
    CASE source = "a = )" -> "error"
      [] source = "if a:" -> None
      [] OTHER -> "code"

\* The state of the plugin and of the shell's run_source attribute.
Magic ==
    [autopx |-> autopx, run_source |-> run_source,
     _original_run_source |-> _original_run_source,
     active_multiengine_client |-> active_multiengine_client]

\* The plugin and the shell become m.
BecomesMagic(m) ==
    /\ autopx' = m.autopx
    /\ run_source' = m.run_source
    /\ _original_run_source' = m._original_run_source
    /\ active_multiengine_client' = m.active_multiengine_client

\* ParalleMagic._enable_autopx
_enable_autopx(m) ==
    IF m.active_multiengine_client = None
    THEN m
    ELSE [m EXCEPT !._original_run_source = m.run_source,
                   !.run_source = pxrun_source,
                   !.autopx = TRUE]

\* A _disable_autopx that clears the flag and leaves pxrun_source installed.
_disable_autopx_keeps_px(m) == [m EXCEPT !.autopx = FALSE]

\* ParalleMagic._disable_autopx
_disable_autopx(m) ==
    IF m.autopx
    THEN [m EXCEPT !.run_source = m._original_run_source, !.autopx = FALSE]
    ELSE m

\* ParalleMagic.magic_autopx
magic_autopx(m) == IF m.autopx THEN _disable_autopx(m) ELSE _enable_autopx(m)

\* The variables the parallel magics do not touch.
not_parallel_vars == <<kernel_vars, streams, sent, now, calls, testing_vars, faults>>

\* A multiengine client is activated: it becomes the plugin's active client.
activate ==
    /\ active_multiengine_client = None
    /\ active_multiengine_client' = "mec"
    /\ UNCHANGED <<autopx, run_source, _original_run_source, ran>>
    /\ UNCHANGED not_parallel_vars

\* Another run_source is installed on the shell.
set_run_source ==
    /\ run_source = "InteractiveShell.run_source"
    /\ run_source' = "custom.run_source"
    /\ UNCHANGED <<autopx, _original_run_source, active_multiengine_client, ran>>
    /\ UNCHANGED not_parallel_vars

\* magic_autopx is called.
magic_autopx_call ==
    /\ Len(ran) < MaxRan
    /\ BecomesMagic(magic_autopx(Magic))
    /\ ran' = Append(ran, [source |-> "%autopx", where |-> "magic"])
    /\ UNCHANGED not_parallel_vars

\* shell.run_source(source) while the shell's own method is installed: the source runs
\* in the shell.
run_source_call ==
    /\ Len(ran) < MaxRan
    /\ run_source \in ShellRunSources
    /\ \E source \in Sources \ AutopxSources :
          ran' = Append(ran, [source |-> source, where |-> run_source])
    /\ UNCHANGED <<autopx, run_source, _original_run_source, active_multiengine_client>>
    /\ UNCHANGED not_parallel_vars

\* shell.run_source(source) while pxrun_source is installed: ParalleMagic.pxrun_source.
pxrun_source_call ==
    /\ Len(ran) < MaxRan
    /\ run_source = pxrun_source
    /\ \E source \in Sources :
          IF px_compile(source) \in {"error", None}
          THEN /\ ran' = Append(ran, [source |-> source, where |-> None])
               /\ UNCHANGED <<autopx, run_source, _original_run_source,
                              active_multiengine_client>>
          ELSE IF source \in AutopxSources
               THEN /\ BecomesMagic(_disable_autopx(Magic))
                    /\ ran' = Append(ran, [source |-> source, where |-> "magic"])
               ELSE /\ ran' = Append(ran, [source |-> source,
                                           where |-> IF active_multiengine_client = None
                                                     THEN None ELSE "engines"])
                    /\ UNCHANGED <<autopx, run_source, _original_run_source,
                                   active_multiengine_client>>
    /\ UNCHANGED not_parallel_vars

NextPx ==
    \/ activate
    \/ set_run_source
    \/ magic_autopx_call
    \/ run_source_call
    \/ pxrun_source_call

SpecPx == Init /\ [][NextPx]_vars

\* ------------------------------------------------------------ claims

\* The msg_id a sent message has as parent, 0 when it has no parent.
ParentId(m) == IF m.parent_header = EmptyHeader THEN 0 ELSE m.parent_header.msg_id

\* The positions in log of the messages of type t with parent id.
SentIn(log, t, id) == {i \in DOMAIN log : log[i].msg_type = t /\ ParentId(log[i]) = id}

\* The positions in sent of the messages of type t with parent id.
Sent(t, id) == SentIn(sent, t, id)

\* The msg_ids of the requests waiting on the reply channel.
Queued == {IdOf(reply_queue[i]) : i \in DOMAIN reply_queue}

\* The msg_ids of the requests start() dispatched to a handler.
Handled == {IdOf(handled[i]) : i \in DOMAIN handled}

\* The code of handled request id, as its pyin message shows it.
CodeKind(id) == {compiler(sent[i].content.code).kind : i \in Sent(<<"pyin">>, id)}

\* Request b.id, queued when b.cause got its error reply, is answered 'aborted' by the
\* drain that follows, and nothing else is done for it.
Aborted(b) ==
    /\ b.id \notin Handled
    /\ b.id \in Queued => pc = "abort"
    /\ b.id \notin Queued =>
          \E i \in DOMAIN sent :
             /\ ParentId(sent[i]) = b.id
             /\ sent[i].socket = "reply"
             /\ sent[i].content = [status |-> "aborted"]
    /\ \A i \in DOMAIN sent :
          ParentId(sent[i]) = b.id => sent[i].content = [status |-> "aborted"]

\* C1: every request that was queued on the reply channel when an execute_request
\* whose code raised got its 'error' reply is answered {status: 'aborted'} and is
\* never dispatched to a handler.
C1_QueuedAtErrorAborted ==
    \A b \in backlog : CodeKind(b.cause) = {"code"} => Aborted(b)

\* C1 witness: the drain after a raising execute_request has finished and a request
\* of its backlog has its aborted reply.
C1_Witness ==
    /\ pc = "idle"
    /\ \E b \in backlog :
          /\ CodeKind(b.cause) = {"code"}
          /\ b.id \notin Queued
          /\ Aborted(b)

\* The statement a step of the executing code is about to run binds name n.
Binds(n) ==
    /\ pc \in {"exec", "input"}
    /\ ip <= Len(stmts)
    /\ stmts[ip][1] \in {"bind", "copy", "input"}
    /\ stmts[ip][2] = n

\* C2: user_ns persists across requests: a binding stays as it is through every step
\* of every handler and of the abort drain, except a step of executing code that
\* rebinds that very name; so the binding a request made is what a later request reads.
C2_NamespacePersists ==
    [][\A n \in DOMAIN user_ns :
          \/ n \in DOMAIN user_ns' /\ user_ns'[n] = user_ns[n]
          \/ Binds(n)]_vars

\* C2 witness: 'x = 1' was executed by one request, another name was bound by a
\* second, and a third request's 'y = x' has read the 1.
C2_Witness ==
    /\ Len(handled) = 3
    /\ handled[1].msg.content = [code |-> "x = 1"]
    /\ handled[2].msg.content = [code |-> "y = raw_input('p')"]
    /\ handled[3].msg.content = [code |-> "y = x"]
    /\ pc = "idle"
    /\ user_ns = [x |-> "1", y |-> "1"]

\* The handler of request id has ended.
Ended(id) == id \in Handled /\ (pc \in {"exec", "input"} => IdOf(cur) # id)

\* The code of execute_request who (a handled request with a code field).
CodeOf(who) == who.msg.content.code

\* The exception the code of the second specification raises, "" when it raises none.
EdgeRaises(code) ==
    CASE code = "raise SystemExit" -> "SystemExit"
      [] code = "raise KeyboardInterrupt" -> "KeyboardInterrupt"
      [] code = "class E(Exception): __str__ = None\nraise E()" -> "E"
      [] OTHER -> ""

\* The exception the code of the model raises when it runs, "" when it raises none.
Raises(code) ==
    IF code = "x = 2; sys.stderr.write('e'); 1/0" THEN "ZeroDivisionError" ELSE EdgeRaises(code)

\* C3: an execute_request whose code raised has exactly one pyerr message, on the
\* broadcast channel, and one execute_reply with status 'error', sent after the pyerr
\* and with the same ename, evalue and traceback; for 1/0 the ename is ZeroDivisionError.
C3_PyerrThenEqualErrorReply ==
    \A k \in DOMAIN handled :
       LET id == IdOf(handled[k])
           errs == Sent(<<"pyerr">>, id)
           replies == {i \in Sent(execute_reply, id) : sent[i].content.status = "error"}
       IN  /\ (errs # {} \/ replies # {}) =>
                 /\ Cardinality(errs) = 1 /\ Cardinality(replies) = 1
                 /\ \A i \in errs : \A j \in replies :
                       /\ i < j
                       /\ sent[i].socket = "pub" /\ sent[j].socket = "reply"
                       /\ sent[i].parent_header = handled[k].msg.header
                       /\ sent[j].parent_header = handled[k].msg.header
                       /\ sent[j].ident = handled[k].ident
                       /\ sent[i].content = sent[j].content
                       /\ sent[j].content.traceback =
                             format_exception(sent[j].content.ename, sent[j].content.evalue)
           /\ ( /\ handled[k].msg.msg_type = execute_request
                /\ "code" \in DOMAIN handled[k].msg.content
                /\ Raises(CodeOf(handled[k])) # ""
                /\ Ended(id) ) =>
                 \E i \in errs : sent[i].content.ename = Raises(CodeOf(handled[k]))

\* C3 witness: a code that ends in 1/0 was executed and its pyerr and its error reply
\* have been sent.
C3_Witness ==
    \E k \in DOMAIN handled :
       /\ handled[k].msg.content = [code |-> "x = 2; sys.stderr.write('e'); 1/0"]
       /\ Sent(<<"pyerr">>, IdOf(handled[k])) # {}
       /\ Sent(execute_reply, IdOf(handled[k])) # {}

\* The elements of a sequence.
Range(seq) == {seq[i] : i \in DOMAIN seq}

\* C4: when an execute_request has its (non-aborted) execute_reply, every stream
\* message with text written by that request was sent before the reply, no text of
\* the request is left in a buffer, and right after the reply is sent both buffers
\* are empty.
C4_OutputBeforeReply ==
    /\ \A j \in DOMAIN sent :
          (sent[j].msg_type = execute_reply /\ sent[j].content.status # "aborted") =>
             /\ \A i \in DOMAIN sent :
                   ParentId(sent[j]) \in Range(sent[i].by) => i < j
             /\ \A n \in DOMAIN streams : ParentId(sent[j]) \notin Range(streams[n].by)
    /\ ( /\ sent # << >>
         /\ sent[Len(sent)].msg_type = execute_reply
         /\ sent[Len(sent)].content.status # "aborted" ) =>
          \A n \in DOMAIN streams : streams[n].buffer = << >>

\* C4 witness: a request wrote to stdout, another to stderr before it raised, and the
\* last message sent is an execute_reply that follows the stream message of its request.
C4_Witness ==
    /\ \E i \in DOMAIN sent : sent[i].msg_type = <<"stream">> /\ sent[i].content.name = "stdout"
    /\ sent[Len(sent)].msg_type = execute_reply
    /\ sent[Len(sent)].content.status = "error"
    /\ Len(sent) > 1
    /\ sent[Len(sent) - 1].msg_type = <<"stream">>
    /\ sent[Len(sent) - 1].content.name = "stderr"
    /\ ParentId(sent[Len(sent) - 1]) = ParentId(sent[Len(sent)])

\* C5: every stream message has as parent the header of the request whose code wrote
\* each character of its data; text is in a buffer only while the request that wrote
\* it is executing, and then both streams carry the header of that request.
C5_OutputAttributed ==
    /\ \A i \in DOMAIN sent :
          sent[i].msg_type = <<"stream">> =>
             /\ sent[i].by # << >>
             /\ \A w \in Range(sent[i].by) :
                   /\ w = ParentId(sent[i])
                   /\ \E k \in DOMAIN handled :
                         IdOf(handled[k]) = w /\ sent[i].parent_header = handled[k].msg.header
    /\ \A n \in DOMAIN streams :
          /\ pc \in {"exec", "input"} => streams[n].parent_header = cur.msg.header
          /\ \A w \in Range(streams[n].by) : pc \in {"exec", "input"} /\ w = IdOf(cur)

\* C5 witness: two requests have each had their output published and a third is
\* executing with text in the stdout buffer.
C5_Witness ==
    /\ \E i, j \in DOMAIN sent :
          /\ sent[i].msg_type = <<"stream">> /\ sent[j].msg_type = <<"stream">>
          /\ ParentId(sent[i]) # ParentId(sent[j])
    /\ pc = "exec"
    /\ streams["stdout"].buffer # << >>
    /\ IdOf(cur) = 3

DispatchesCode ==
    /\ pc = "idle"
    /\ handled' # handled
    /\ Head(reply_queue).msg.msg_type = execute_request
    /\ "code" \in DOMAIN Head(reply_queue).msg.content

\* C7: the step that handles an execute_request whose code does not compile leaves
\* user_ns as it was, sends exactly one execute_reply for it, with status 'error', to
\* the requester, and leaves the kernel running.
C7_CompileFailure ==
    [][(DispatchesCode /\ compiler(CodeOf(Head(reply_queue))).kind # "code") =>
          LET who == Head(reply_queue)
              replies == SentIn(sent', execute_reply, IdOf(who))
          IN  /\ user_ns' = user_ns
              /\ Cardinality(replies) = 1
              /\ \A i \in replies :
                    /\ sent'[i].socket = "reply"
                    /\ sent'[i].ident = who.ident
                    /\ sent'[i].parent_header = who.msg.header
                    /\ sent'[i].content.status = "error"
              /\ pc' \notin {"crashed", "exited"}]_vars

\* C7 witness: with x bound, 'x = (' got its error reply, the drain has ended and the
\* main loop waits for the next request.
C7_Witness ==
    /\ pc = "idle"
    /\ "x" \in DOMAIN user_ns
    /\ \E k \in DOMAIN handled :
          /\ handled[k].msg.content = [code |-> "x = ("]
          /\ \E i \in Sent(execute_reply, IdOf(handled[k])) : sent[i].content.status = "error"

\* C8: the step in which exec returns without an exception sends the execute_reply
\* {status: 'ok', payload: {}} to the requester, with no pyerr for the request, and
\* goes back to the main loop with the queue as it is: no abort drain.
C8_SuccessReply ==
    [][(pc = "exec" /\ ip > Len(stmts) /\ pc' # "exec") =>
          /\ Len(sent') > Len(sent)
          /\ sent'[Len(sent')] = Msg("reply", execute_reply, [status |-> "ok", payload |-> << >>],
                                     cur.msg, cur.ident, << >>)
          /\ \A i \in (Len(sent) + 1)..(Len(sent') - 1) : sent'[i].msg_type = <<"stream">>
          /\ SentIn(sent', <<"pyerr">>, IdOf(cur)) = {}
          /\ Cardinality(SentIn(sent', execute_reply, IdOf(cur))) = 1
          /\ pc' = "idle"
          /\ reply_queue' = reply_queue
          /\ backlog' = backlog]_vars

\* C8 witness: 'x = 1' ran and got its ok reply, and the request queued behind it was
\* then dispatched to its handler and answered.
C8_Witness ==
    /\ Len(handled) = 2
    /\ handled[1].msg.content = [code |-> "x = 1"]
    /\ \E i \in Sent(execute_reply, IdOf(handled[1])) : sent[i].content.status = "ok"
    /\ handled[2].msg.msg_type = complete_request
    /\ Sent(complete_reply, IdOf(handled[2])) # {}
    /\ backlog = {}

\* C9: every execute_request with a code field that was dispatched has exactly one
\* pyin message, on the broadcast channel, with its code and its header, and every
\* other message with that request as parent was sent after it.
C9_PyinFirst ==
    \A k \in DOMAIN handled :
       (handled[k].msg.msg_type = execute_request /\ "code" \in DOMAIN handled[k].msg.content) =>
          LET id == IdOf(handled[k])
              pyins == Sent(<<"pyin">>, id)
          IN  /\ Cardinality(pyins) = 1
              /\ \A j \in pyins :
                    /\ sent[j].socket = "pub"
                    /\ sent[j].content = [code |-> CodeOf(handled[k])]
                    /\ sent[j].parent_header = handled[k].msg.header
                    /\ \A i \in DOMAIN sent : (ParentId(sent[i]) = id /\ i # j) => j < i

\* C9 witness: pyin precedes the pyerr of a code that does not compile, and precedes
\* the stream message and the reply of a code that raises after writing.
C9_Witness ==
    /\ \E k \in DOMAIN handled :
          /\ handled[k].msg.content = [code |-> "x = ("]
          /\ Sent(<<"pyin">>, IdOf(handled[k])) # {}
          /\ Sent(<<"pyerr">>, IdOf(handled[k])) # {}
    /\ \E k \in DOMAIN handled :
          /\ handled[k].msg.content = [code |-> "x = 2; sys.stderr.write('e'); 1/0"]
          /\ Sent(<<"stream">>, IdOf(handled[k])) # {}
          /\ Sent(execute_reply, IdOf(handled[k])) # {}

\* C10: the step that handles an execute_request without a code field takes it off
\* the queue and changes nothing else: no message is sent, user_ns, the streams and
\* the displayhook keep their state, the drain is not entered and start() goes on.
C10_NoCodeDropped ==
    [][( /\ pc = "idle"
         /\ handled' # handled
         /\ Head(reply_queue).msg.msg_type = execute_request
         /\ "code" \notin DOMAIN Head(reply_queue).msg.content ) =>
          /\ reply_queue' = Tail(reply_queue)
          /\ pc' = "idle"
          /\ UNCHANGED <<sent, user_ns, streams, displayhook_parent, raw_input, backlog, cur>>]_vars

\* C10 witness: after an execute_request that wrote output, one without code was
\* dispatched and nothing was sent for it, and the request behind it was handled.
C10_Witness ==
    /\ Len(handled) = 3
    /\ handled[1].msg.content = [code |-> "print('ab')"]
    /\ handled[2].msg.msg_type = execute_request
    /\ "code" \notin DOMAIN handled[2].msg.content
    /\ \A i \in DOMAIN sent : ParentId(sent[i]) # IdOf(handled[2])
    /\ Sent(execute_reply, IdOf(handled[3])) # {}
    /\ streams["stdout"].parent_header = handled[3].msg.header

IsShutdownReply(m, who, socket) ==
    /\ m.socket = socket
    /\ m.msg_type = shutdown_reply
    /\ m.content = who.msg.content
    /\ m.parent_header = who.msg.header

\* C12: the step in which start() dispatches a shutdown_request sends exactly two
\* messages, the shutdown_reply with a copy of the request's content first on the
\* reply channel and then on the broadcast channel, and ends the kernel; once the
\* kernel has ended, the requests queued behind the shutdown_request stay queued,
\* nothing has been sent for them and none of them has been dispatched.
C12_ShutdownRepliesThenExits ==
    /\ [][( /\ pc = "idle"
            /\ reply_queue # << >>
            /\ Head(reply_queue).msg.msg_type = shutdown_request
            /\ handled' # handled ) =>
             /\ reply_queue' = Tail(reply_queue)
             /\ Len(sent') = Len(sent) + 2
             /\ SubSeq(sent', 1, Len(sent)) = sent
             /\ IsShutdownReply(sent'[Len(sent) + 1], Head(reply_queue), "reply")
             /\ IsShutdownReply(sent'[Len(sent) + 2], Head(reply_queue), "pub")
             /\ pc' = "exited"]_vars
    /\ [](pc = "exited" =>
             /\ handled # << >>
             /\ handled[Len(handled)].msg.msg_type = shutdown_request
             /\ Len(sent) >= 2
             /\ IsShutdownReply(sent[Len(sent)], handled[Len(handled)], "pub")
             /\ \A i \in DOMAIN reply_queue :
                   /\ IdOf(reply_queue[i]) \notin Handled
                   /\ \A j \in DOMAIN sent : ParentId(sent[j]) # IdOf(reply_queue[i]))

\* C12 witness: the kernel has ended on a shutdown_request that had an
\* execute_request and a complete_request queued behind it; both are still queued.
C12_Witness ==
    /\ pc = "exited"
    /\ Len(reply_queue) = 2
    /\ reply_queue[1].msg.msg_type = execute_request
    /\ reply_queue[2].msg.msg_type = complete_request
    /\ IsShutdownReply(sent[1], handled[1], "reply")
    /\ IsShutdownReply(sent[2], handled[1], "pub")

\* Every exception SystemExit or KeyboardInterrupt that executed code raised was
\* answered with an 'error' reply naming it, and the kernel went on.
ExitAndInterruptCaught ==
    \A k \in DOMAIN handled :
       ( /\ handled[k].msg.msg_type = execute_request
         /\ CodeOf(handled[k]) \in {"raise SystemExit", "raise KeyboardInterrupt"}
         /\ Ended(IdOf(handled[k])) ) =>
          /\ \E j \in Sent(execute_reply, IdOf(handled[k])) :
                /\ sent[j].content.status = "error"
                /\ sent[j].content.ename = EdgeRaises(CodeOf(handled[k]))
          /\ (pc = "crashed" => k < Len(handled))

\* The kernel has handled code that raised SystemExit and code that raised
\* KeyboardInterrupt and is waiting for the next request.
ExitAndInterruptWitness ==
    /\ pc = "idle"
    /\ Len(handled) = 2
    /\ handled[1].msg.content = [code |-> "raise SystemExit"]
    /\ handled[2].msg.content = [code |-> "raise KeyboardInterrupt"]

\* C13: every execute_request whose code raised an exception, whatever the
\* exception, has an execute_reply with status 'error' that names the exception once
\* its handler has ended, and the kernel is not stopped by an execute_request: when
\* start() has been left other than by shutdown_request, the request that was being
\* handled was not an execute_request.
C13_UserCodeCannotStopKernel ==
    /\ \A k \in DOMAIN handled :
          ( /\ handled[k].msg.msg_type = execute_request
            /\ EdgeRaises(CodeOf(handled[k])) # ""
            /\ Ended(IdOf(handled[k])) ) =>
             \E j \in Sent(execute_reply, IdOf(handled[k])) :
                /\ sent[j].content.status = "error"
                /\ sent[j].content.ename = EdgeRaises(CodeOf(handled[k]))
    /\ pc = "crashed" => handled[Len(handled)].msg.msg_type # execute_request

\* C14: a complete_request never ends start(), whatever its content: when start()
\* has been left other than by shutdown_request, the request that was being handled
\* was not a complete_request; and a complete_request with its line and text has
\* exactly one complete_reply, sent to the requester, with the matches and status 'ok'.
C14_CompleteNeverStopsLoop ==
    /\ pc = "crashed" => handled[Len(handled)].msg.msg_type # complete_request
    /\ \A k \in DOMAIN handled :
          ( /\ handled[k].msg.msg_type = complete_request
            /\ {"line", "text"} \subseteq DOMAIN handled[k].msg.content ) =>
             /\ Cardinality(Sent(complete_reply, IdOf(handled[k]))) = 1
             /\ \A j \in Sent(complete_reply, IdOf(handled[k])) :
                   /\ sent[j].socket = "reply"
                   /\ sent[j].ident = handled[k].ident
                   /\ DOMAIN sent[j].content = {"matches", "status"}
                   /\ sent[j].content.status = "ok"

\* start() is dispatching the object_info_request at the head of the reply channel.
ObjectInfoStep ==
    /\ pc = "idle"
    /\ reply_queue # << >>
    /\ Head(reply_queue).msg.msg_type = object_info_request
    /\ handled' # handled

\* The step sent exactly one message, the object_info_reply to the request at the
\* head of the reply channel, to the requester.
OneObjectInfoReply ==
    /\ Len(sent') = Len(sent) + 1
    /\ SubSeq(sent', 1, Len(sent)) = sent
    /\ sent'[Len(sent')].socket = "reply"
    /\ sent'[Len(sent')].msg_type = object_info_reply
    /\ sent'[Len(sent')].ident = Head(reply_queue).ident
    /\ sent'[Len(sent')].parent_header = Head(reply_queue).msg.header
    /\ DOMAIN sent'[Len(sent')].content = {"docstring"}

\* C15: the step that handles an object_info_request, whatever its content, sends
\* exactly one object_info_reply to the requester, leaves user_ns as it was and
\* returns to start().
C15_ObjectInfoAlwaysReplies ==
    [][ObjectInfoStep => (OneObjectInfoReply /\ user_ns' = user_ns /\ pc' = "idle")]_vars

\* The object a name is bound to: in the namespace if the namespace binds the name,
\* otherwise in the built-ins, None if neither binds it.
Bound(ns, name) ==
    IF name \in DOMAIN ns THEN ns[name]
    ELSE IF name \in DOMAIN builtins THEN builtins[name] ELSE None

\* The oname a.b.c of the object_info_request being dispatched has three segments
\* of which a and a.b resolve and a.b.c does not.
ThirdSegmentUnresolved ==
    /\ ObjectInfoStep
    /\ "oname" \in DOMAIN Head(reply_queue).msg.content
    /\ LET o == Head(reply_queue).msg.content.oname
       IN  /\ Len(o) = 3
           /\ Bound(user_ns, o[1]) # None
           /\ getattr(Bound(user_ns, o[1]), o[2]) # None
           /\ getattr(getattr(Bound(user_ns, o[1]), o[2]), o[3]) = None

\* The docstring of a.b for the oname a.b.c of the request being dispatched.
DocOfSecond ==
    LET o == Head(reply_queue).msg.content.oname
    IN  doc_of(getattr(Bound(user_ns, o[1]), o[2]))

RECURSIVE Follow(_, _)
Follow(symbol, context) ==
    IF context = << >> THEN symbol
    ELSE IF getattr(symbol, Head(context)) = None THEN None
    ELSE Follow(getattr(symbol, Head(context)), Tail(context))

\* The object_info_request being dispatched has an oname.
NamedObjectInfoStep ==
    /\ ObjectInfoStep
    /\ "oname" \in DOMAIN Head(reply_queue).msg.content

\* The reply of the step is what looking the root name up in user_ns, and in the
\* built-ins only when user_ns has no binding for it, gives: when neither binds the
\* root the docstring is ''; when the root is bound and every further segment
\* resolves, the docstring is that of the object the segments lead to from the
\* root's binding.
ResolvesAsStated ==
    LET o == Head(reply_queue).msg.content.oname
        root == Bound(user_ns, o[1])
        bound == o[1] \in DOMAIN user_ns \/ o[1] \in DOMAIN builtins
        final == Follow(root, Tail(o))
        doc == sent'[Len(sent')].content.docstring
    IN  /\ OneObjectInfoReply
        /\ ~bound => doc = ""
        /\ (bound /\ (Len(o) = 1 \/ final # None)) => doc = doc_of(final)

\* C17: every object_info_request with an oname is answered by resolving the root
\* name in user_ns first and in the built-ins only when user_ns has no binding for
\* it, then following the remaining segments attribute by attribute: the docstring
\* is that of the final object when every segment resolves, and '' when the root
\* resolves in neither namespace.
C17_UserNsBeforeBuiltins == [][NamedObjectInfoStep => ResolvesAsStated]_vars

\* user_ns binds the root name of the oname being dispatched to None.
RootBoundToNone ==
    LET o == Head(reply_queue).msg.content.oname
    IN  o[1] \in DOMAIN user_ns /\ user_ns[o[1]] = None

\* The resolution order holds for every oname whose root user_ns does not bind to None.
ResolutionOrderUnlessNone ==
    [][(NamedObjectInfoStep /\ ~RootBoundToNone) => ResolvesAsStated]_vars

\* An oname rooted in user_ns, one rooted in the built-ins and one rooted nowhere
\* have been answered, with the docstrings of int, of int.real and with ''.
ResolutionOrderWitness ==
    /\ \E k \in DOMAIN handled :
          /\ handled[k].msg.content = [oname |-> <<"x">>]
          /\ \E j \in Sent(object_info_reply, IdOf(handled[k])) :
                sent[j].content.docstring = doc_of("1")
    /\ \E k \in DOMAIN handled :
          /\ handled[k].msg.content = [oname |-> <<"int", "real">>]
          /\ \E j \in Sent(object_info_reply, IdOf(handled[k])) :
                sent[j].content.docstring = doc_of("int.real")

\* The number of messages that had been sent when call i of the log returned.
SentBy(i) == IF i < Len(calls) THEN calls[i + 1].n ELSE Len(sent)

\* C18: when set_parent(request) is called on an open OutStream whose buffer is
\* empty, and is followed by one write of a text that is not empty and then by
\* flush(), the three calls together send exactly one message: a stream message on
\* the broadcast channel whose parent header is the header of that request and
\* whose content is {name: the name of the stream, data: the text}.
C18_SetParentWriteFlush ==
    \A i \in DOMAIN calls :
       ( /\ i + 2 <= Len(calls)
         /\ calls[i].op = "set_parent"
         /\ calls[i].s.open
         /\ calls[i].s.buffer = << >>
         /\ calls[i + 1].op = "write"
         /\ calls[i + 1].arg # << >>
         /\ calls[i + 2].op = "flush" ) =>
          /\ SentBy(i + 2) = calls[i].n + 1
          /\ sent[calls[i].n + 1].socket = "pub"
          /\ sent[calls[i].n + 1].msg_type = <<"stream">>
          /\ sent[calls[i].n + 1].parent_header = calls[i].arg.header
          /\ sent[calls[i].n + 1].content = [name |-> "stdout", data |-> calls[i + 1].arg]

\* C18 witness: after a write of the empty string and more than flush_interval,
\* set_parent, a write of "a" and flush() were called and one message, with the
\* header of the request given to set_parent, has been sent.
C18_Witness ==
    /\ Len(calls) = 4
    /\ calls[1].op = "write" /\ calls[1].arg = << >>
    /\ calls[2].op = "set_parent" /\ calls[2].arg.header.msg_id = 2
    /\ calls[3].op = "write" /\ calls[3].arg = <<"a">> /\ calls[3].t - calls[1].t > flush_interval
    /\ calls[4].op = "flush"
    /\ Len(sent) = 1
    /\ sent[1].parent_header.msg_id = 2

\* The stream as call i of the log left it.
StreamAfter(i) == IF i < Len(calls) THEN calls[i + 1].s ELSE streams["stdout"]

\* The start of the flush window after the first k calls of the log, as the timed
\* flushing is stated, -1 when no window is open: the first write since the last
\* flush opens the window, a flush that publishes the text closes it, and so does a
\* write that comes more than flush_interval after the window was opened.
RECURSIVE Window(_)
Window(k) ==
    IF k = 0 THEN -1
    ELSE LET c == calls[k]
             w == Window(k - 1)
         IN  IF ~c.s.open THEN w
             ELSE CASE c.op = "flush" -> IF c.s.buffer # << >> THEN -1 ELSE w
                    [] c.op = "write" -> IF w = -1 THEN c.t
                                         ELSE IF c.t - w > flush_interval THEN -1 ELSE w
                    [] OTHER -> w

\* Write k of the log did what the timed flushing states: within flush_interval of
\* the first write of the window it sent nothing; later than that it flushed once,
\* so that the buffer is empty after it and one message has left if there was text.
TimedFlush(k) ==
    LET c == calls[k]
        w == Window(k - 1)
    IN  IF w = -1 \/ c.t - w <= flush_interval
        THEN SentBy(k) = c.n
        ELSE /\ StreamAfter(k).buffer = << >>
             /\ SentBy(k) = IF c.s.buffer \o c.arg = << >> THEN c.n ELSE c.n + 1

\* C19: every write on the open stream that comes within flush_interval of the
\* first write since the last flush triggers no flush, a write that comes more than
\* flush_interval after that first write triggers exactly one flush within the
\* call, and the write after it starts a new window.
C19_TimedFlushWindow ==
    \A k \in DOMAIN calls : (calls[k].op = "write" /\ calls[k].s.open) => TimedFlush(k)

\* The same for the behaviours in which no empty string is written.
TimedFlushOfText ==
    (\A k \in DOMAIN calls : calls[k].op = "write" => calls[k].arg # << >>) => C19_TimedFlushWindow

\* Three texts were written, the second within flush_interval of the first and the
\* third after more than flush_interval: the third write sent all three in one
\* message; then a fourth write started a new window.
TimedFlushWitness ==
    /\ Len(calls) = 4
    /\ \A k \in DOMAIN calls : calls[k].op = "write" /\ calls[k].arg # << >>
    /\ calls[3].t - calls[1].t > flush_interval
    /\ SentBy(2) = 0 /\ SentBy(3) = 1 /\ SentBy(4) = 1
    /\ streams["stdout"].start = calls[4].t

\* The text written by the first k calls of the log and not sent by any of them, in
\* the order of the calls: what was written since the last call that sent a message.
RECURSIVE Pending(_)
Pending(k) ==
    IF k = 0 THEN << >>
    ELSE IF SentBy(k) > calls[k].n THEN << >>
    ELSE IF calls[k].op = "write" /\ calls[k].s.open THEN Pending(k - 1) \o calls[k].arg
    ELSE Pending(k - 1)

\* All the text the first k calls of the log wrote to the open stream, in order.
RECURSIVE Written(_)
Written(k) ==
    IF k = 0 THEN << >>
    ELSE IF calls[k].op = "write" /\ calls[k].s.open THEN Written(k - 1) \o calls[k].arg
    ELSE Written(k - 1)

\* The data of the first k messages sent, in order.
RECURSIVE Published(_)
Published(k) == IF k = 0 THEN << >> ELSE Published(k - 1) \o sent[k].content.data

\* C20: a flush() on the open stream with an empty buffer sends nothing and leaves
\* the stream as it was; with text in the buffer it sends exactly one stream message
\* whose data is all the text written since the last call that sent a message, in
\* the order of the writes, and leaves the buffer empty and the window start unset.
\* At all times the text published so far followed by the text in the buffer is the
\* text written so far: nothing is published twice and nothing is lost.
C20_FlushPublishesBufferOnce ==
    /\ \A k \in DOMAIN calls :
          (calls[k].op = "flush" /\ calls[k].s.open) =>
             IF calls[k].s.buffer = << >>
             THEN SentBy(k) = calls[k].n /\ StreamAfter(k) = calls[k].s
             ELSE /\ SentBy(k) = calls[k].n + 1
                  /\ sent[SentBy(k)].msg_type = <<"stream">>
                  /\ sent[SentBy(k)].content.name = "stdout"
                  /\ sent[SentBy(k)].content.data = Pending(k - 1)
                  /\ StreamAfter(k).buffer = << >>
                  /\ StreamAfter(k).start = -1
    /\ Published(Len(sent)) \o streams["stdout"].buffer = Written(Len(calls))

\* C20 witness: "a" and "b" were written, flush() sent them as "ab" and a second
\* flush(), on the empty buffer, sent nothing.
C20_Witness ==
    /\ Len(calls) = 4
    /\ calls[1].op = "write" /\ calls[1].arg = <<"a">>
    /\ calls[2].op = "write" /\ calls[2].arg = <<"b">>
    /\ calls[3].op = "flush"
    /\ calls[4].op = "flush"
    /\ Len(sent) = 1
    /\ sent[1].content.data = <<"a", "b">>

\* close() was called before call k of the log.
ClosedBefore(k) == \E j \in 1..(k - 1) : calls[j].op = "close"

\* C21: once close() has been called, every call of write, writelines and flush
\* raises the closed-stream error, sends no message and leaves the stream (its
\* buffer, its window start, its parent header) as it found it, and the stream is
\* never open again.
C21_ClosedStreamRaises ==
    /\ \A k \in DOMAIN calls :
          ClosedBefore(k) =>
             /\ ~calls[k].s.open
             /\ calls[k].op \in {"write", "writelines", "flush"} =>
                   /\ calls[k].raised
                   /\ SentBy(k) = calls[k].n
                   /\ StreamAfter(k) = calls[k].s
    /\ ClosedBefore(Len(calls) + 1) => ~streams["stdout"].open

\* C21 witness: a text was written and the stream closed with the text in its
\* buffer; writelines and flush were then called, nothing has been sent and the
\* text is still in the buffer.
C21_Witness ==
    /\ Len(calls) = 4
    /\ calls[1].op = "write" /\ calls[1].arg = <<"a">>
    /\ calls[2].op = "close"
    /\ calls[3].op = "writelines"
    /\ calls[4].op = "flush"
    /\ sent = << >>
    /\ streams["stdout"].buffer = <<"a">>

\* C22: while the executing code waits for an input reply, the last message the
\* kernel has sent is the input_request of the request being executed and that
\* request is the last one dispatched: nothing was taken off the reply channel and
\* nothing was sent since.  Whatever is sent after an input_request for a request
\* other than the one that asked, and whatever is sent on the reply channel at all,
\* comes after (or is) the execute_reply of the request that asked.
C22_NothingServedWhileWaiting ==
    /\ pc = "input" =>
          /\ sent[Len(sent)].socket = "req"
          /\ sent[Len(sent)].msg_type = <<"input", "request">>
          /\ sent[Len(sent)].parent_header = cur.msg.header
          /\ handled[Len(handled)] = cur
    /\ \A i \in DOMAIN sent :
          sent[i].msg_type = <<"input", "request">> =>
             \A j \in (i + 1)..Len(sent) :
                (ParentId(sent[j]) # ParentId(sent[i]) \/ sent[j].socket = "reply") =>
                   \E r \in Sent(execute_reply, ParentId(sent[i])) : i < r /\ r <= j

\* C22 witness: the code of the first request is waiting for its input reply while
\* a shutdown_request and a complete_request are queued.
C22_Witness ==
    /\ pc = "input"
    /\ Len(reply_queue) = 2
    /\ reply_queue[1].msg.msg_type = shutdown_request
    /\ reply_queue[2].msg.msg_type = complete_request

\* The requests that arrived during the wait were handled after the reply to the
\* request that had asked for input: the shutdown_request ended the kernel.
ServedAfterInputWitness ==
    /\ pc = "exited"
    /\ Len(handled) = 2
    /\ handled[1].msg.content = [code |-> "y = raw_input('p')"]
    /\ sent[2].msg_type = <<"input", "request">>
    /\ sent[3].msg_type = execute_reply
    /\ sent[4].msg_type = shutdown_reply

\* The executing code has just been given the value of its input: the statement
\* before the next one is the one that asked.
InputReturned ==
    /\ pc = "exec"
    /\ ip > 1
    /\ stmts[ip - 1][1] = "input"

\* C23: when the reply received on the input channel has no value field, the name
\* the code assigns the input to is bound to the empty string and execution goes
\* on: the kernel is executing the same request and has sent nothing since the
\* input_request, and no pyerr exists for the request.  When its code has ended the
\* request has an execute_reply with status 'ok' and started no drain.
C23_BadInputReplyGivesEmptyString ==
    /\ (InputReturned /\ "value" \notin DOMAIN input_reply.content) =>
          /\ user_ns[stmts[ip - 1][2]] = ""
          /\ handled[Len(handled)] = cur
          /\ sent[Len(sent)].msg_type = <<"input", "request">>
          /\ sent[Len(sent)].parent_header = cur.msg.header
          /\ Sent(<<"pyerr">>, IdOf(cur)) = {}
    /\ \A k \in DOMAIN handled :
          (handled[k].msg.content = [code |-> "y = raw_input('p')"] /\ Ended(IdOf(handled[k]))) =>
             /\ Sent(<<"pyerr">>, IdOf(handled[k])) = {}
             /\ \E j \in Sent(execute_reply, IdOf(handled[k])) : sent[j].content.status = "ok"
             /\ \A b \in backlog : b.cause # IdOf(handled[k])

\* C23 witness: the input reply had no value, the code went on with y = '' and got
\* its 'ok' reply, and the request queued behind it was dispatched.
C23_Witness ==
    /\ "value" \notin DOMAIN input_reply.content
    /\ "y" \in DOMAIN user_ns
    /\ user_ns["y"] = ""
    /\ Len(handled) = 2
    /\ handled[1].msg.content = [code |-> "y = raw_input('p')"]
    /\ \E j \in Sent(execute_reply, 1) : sent[j].content.status = "ok"
    /\ handled[2].msg.msg_type = complete_request
    /\ Sent(complete_reply, 2) # {}

\* The positions in sent of the replies {status: 'aborted'}.
AbortedReplies == {i \in DOMAIN sent : sent[i].content = [status |-> "aborted"]}

\* C24: the replies of the abort drain are sent in the order in which the requests
\* they abort arrived; each drained request has exactly one, sent on the reply
\* channel to the identity of that request and with the header of that request as
\* parent header.
C24_DrainInArrivalOrder ==
    /\ \A i \in AbortedReplies :
          /\ sent[i].socket = "reply"
          /\ sent[i].ident = IdentOf(ParentId(sent[i]))
          /\ DOMAIN sent[i].parent_header = {"msg_id", "msg_type"}
          /\ \A j \in AbortedReplies :
                /\ i < j => ParentId(sent[i]) < ParentId(sent[j])
                /\ ParentId(sent[i]) = ParentId(sent[j]) => i = j
    /\ \A b \in backlog :
          b.id \notin Queued => \E i \in AbortedReplies : ParentId(sent[i]) = b.id
    /\ pc = "abort" =>
          \A i \in AbortedReplies : \A q \in Queued : ParentId(sent[i]) < q

\* C24 witness: two requests of two clients were queued behind a request whose code
\* raised; the drain has answered both, the older one first.
C24_Witness ==
    /\ pc = "idle"
    /\ Cardinality(AbortedReplies) = 2
    /\ \E i, j \in AbortedReplies :
          /\ i < j
          /\ ParentId(sent[i]) = 2 /\ sent[i].ident = "c2"
          /\ ParentId(sent[j]) = 3 /\ sent[j].ident = "c1"

\* start() takes the request at the head of the reply channel.
Dequeues == Len(reply_queue') < Len(reply_queue)

\* C25: with the finitely many requests of a behaviour, a kernel that has entered
\* the drain after an error reply is eventually back in start(), waiting for the
\* next request; while the drain lasts no request is dispatched to a handler; and
\* once the kernel is back in start(), the request it takes off the channel is
\* dispatched to its handler and is not answered 'aborted'.
C25_DrainEndsAndLoopResumes ==
    /\ (pc = "abort") ~> (pc = "idle")
    /\ [][pc = "abort" => handled' = handled]_vars
    /\ [][(pc = "idle" /\ Dequeues) =>
             /\ handled' = Append(handled, Head(reply_queue))
             /\ \A i \in DOMAIN sent' : i > Len(sent) => sent'[i].content # [status |-> "aborted"]]_vars

\* C25 witness: the second request was answered 'aborted' by the drain that
\* followed the error reply to the first, and the third request, which came when
\* the kernel was waiting again, was dispatched and got its normal reply.
C25_Witness ==
    /\ pc = "idle"
    /\ \E i \in DOMAIN sent : ParentId(sent[i]) = 2 /\ sent[i].content = [status |-> "aborted"]
    /\ Len(handled) = 2
    /\ IdOf(handled[2]) = 3
    /\ \E i \in DOMAIN sent :
          /\ ParentId(sent[i]) = 3
          /\ sent[i].socket = "reply"
          /\ sent[i].content.status \in {"ok", "error"}

\* C26: every execute_request with a code field that start() dispatched and whose
\* handler has ended has exactly one execute_reply, sent on the reply channel to the
\* identity of the request and with the request's header as parent header; and no
\* request, dispatched or drained, ever has two replies on the reply channel.
C26_ExactlyOneExecuteReply ==
    /\ \A k \in DOMAIN handled :
          ( /\ handled[k].msg.msg_type = execute_request
            /\ "code" \in DOMAIN handled[k].msg.content
            /\ Ended(IdOf(handled[k])) ) =>
             /\ Cardinality(Sent(execute_reply, IdOf(handled[k]))) = 1
             /\ \A j \in Sent(execute_reply, IdOf(handled[k])) :
                   /\ sent[j].socket = "reply"
                   /\ sent[j].ident = handled[k].ident
                   /\ sent[j].parent_header = handled[k].msg.header
    /\ \A i, j \in DOMAIN sent :
          ( /\ sent[i].socket = "reply"
            /\ sent[j].socket = "reply"
            /\ ParentId(sent[i]) = ParentId(sent[j]) ) => i = j

\* An execute_request whose code asked for input got the value and its one reply.
OneReplyAfterInputWitness ==
    /\ pc = "idle"
    /\ Len(handled) = 1
    /\ handled[1].msg.content = [code |-> "y = raw_input('p')"]
    /\ "y" \in DOMAIN user_ns
    /\ user_ns["y"] = "v"
    /\ Cardinality(Sent(execute_reply, 1)) = 1

\* A handled request that was an execute_request with code, whose code ran to its end
\* (the reply says "ok").
Executed(who) ==
    /\ who.msg.msg_type = execute_request
    /\ "code" \in DOMAIN who.msg.content
    /\ \E i \in Sent(execute_reply, IdOf(who)) : sent[i].content.status = "ok"

\* The codes of the executed requests, in execution order.
ExecutedInputs ==
    LET done == SelectSeq(handled, Executed)
    IN  [k \in DOMAIN done |-> CodeOf(done[k])]

\* C27: history is the record of executed inputs: in every state it holds the code of
\* every execute_request that was executed, in execution order.
C27_HistoryRecordsExecutedInputs == history = ExecutedInputs

\* The part of the statement the code does keep: no element of history is ever removed
\* or changed (history only grows by appending).
HistoryAppendOnly ==
    [][/\ Len(history') >= Len(history)
       /\ \A k \in DOMAIN history : history'[k] = history[k]]_vars

\* The names of a namespace that update does not set or remove by itself.
Plain(d) == dict_pop(dict_pop(d, "_"), "__builtins__")

\* C28: clearing an ipnsdict does not destroy its checkpoint: once update has been
\* called, every clear() leaves the dict holding what was saved at the last checkpoint,
\* that is what the dict held just before its most recent update ('_' and
\* '__builtins__', which update itself removes and sets, are left out of the comparison).
C28_ClearRestoresCheckpoint ==
    [][(ns_clear /\ prior.taken) => Plain(ipns'.self) = Plain(prior.held)]_vars

\* What clear() does leave: the dict holds __builtins__ alone and the checkpoint is empty.
ClearLeavesBuiltinsOnly ==
    [][ns_clear => /\ ipns'.self = ("__builtins__" :> builtins)
                   /\ ipns'._savedict = << >>]_vars

\* After an update, _savedict is what the dict held just before it.
SavedictIsPrior ==
    [][ns_update => ipns'._savedict = prior'.held]_vars

NormalReplyType(msg_type) ==
    CASE msg_type = execute_request -> execute_reply
      [] msg_type = complete_request -> complete_reply
      [] msg_type = object_info_request -> object_info_reply
      [] msg_type = shutdown_request -> shutdown_reply
      [] OTHER -> << >>

\* The aborted reply i was sent in the drain to a request of type msg_type.
AbortedReplyTo(i, msg_type) ==
    /\ sent[i].socket = "reply"
    /\ sent[i].content = [status |-> "aborted"]
    /\ sent[i].parent_header.msg_type = msg_type

\* C30: in the abort drain the reply to an aborted request has the type of the normal
\* reply to that request type: execute_reply, complete_reply, object_info_reply or
\* shutdown_reply.
C30_AbortedReplyHasNormalType ==
    \A i \in DOMAIN sent : \A msg_type \in msg_types :
        AbortedReplyTo(i, msg_type) => sent[i].msg_type = NormalReplyType(msg_type)

\* For the three request types of one word the aborted reply has the normal type.
AbortedReplyTypeOfOneWord ==
    \A i \in DOMAIN sent : \A msg_type \in msg_types \ {object_info_request} :
        AbortedReplyTo(i, msg_type) => sent[i].msg_type = NormalReplyType(msg_type)

\* An aborted object_info_request is answered with the type object_reply.
AbortedObjectInfoIsObjectReply ==
    \A i \in DOMAIN sent :
        AbortedReplyTo(i, object_info_request) => sent[i].msg_type = <<"object", "reply">>

\* The msg_ids of the shutdown_requests the abort drain answered.
DrainedShutdowns ==
    {ParentId(sent[i]) : i \in {j \in AbortedReplies :
                                   sent[j].parent_header.msg_type = shutdown_request}}

\* The positions in sent of the messages with parent id, on any socket.
SentFor(id) == {i \in DOMAIN sent : ParentId(sent[i]) = id}

\* C31: a shutdown_request dequeued by the abort drain does not stop the kernel: the
\* only message ever sent for it is one shutdown_reply with status 'aborted' on the
\* reply channel (nothing on the broadcast channel), it is not dispatched to its
\* handler, and the kernel exits only for a shutdown_request the main loop dispatched.
C31_DrainedShutdownDoesNotStop ==
    /\ \A id \in DrainedShutdowns :
          /\ id \notin Handled
          /\ Cardinality(SentFor(id)) = 1
          /\ \A i \in SentFor(id) :
                /\ sent[i].socket = "reply"
                /\ sent[i].msg_type = shutdown_reply
                /\ sent[i].content = [status |-> "aborted"]
    /\ pc = "exited" =>
          \E k \in DOMAIN handled : handled[k].msg.msg_type = shutdown_request

\* A shutdown_request was drained, and the main loop served the request after it.
C31_Witness ==
    /\ pc = "idle"
    /\ 2 \in DrainedShutdowns
    /\ Len(handled) = 2
    /\ IdOf(handled[2]) = 3
    /\ \E i \in SentFor(3) : sent[i].socket = "reply" /\ sent[i].content # [status |-> "aborted"]

\* The msg_ids of the requests that were on the reply channel when an error reply
\* was sent.
QueuedAtError == {b.id : b \in backlog}

\* The msg_ids of the requests answered 'aborted'.
AbortedIds == {ParentId(sent[i]) : i \in AbortedReplies}

\* C32: while the abort drain is in progress, whatever is or comes on the reply channel
\* is taken only by the drain, which answers it 'aborted' and dispatches nothing; the
\* drain ends only on finding the channel empty, so a request that arrives during it is
\* aborted; and no request answered 'aborted' is ever executed.
C32_ArrivalsDuringDrainAborted ==
    /\ [][(pc = "abort" /\ Dequeues) =>
             /\ sent' = Append(sent, Msg("reply", sent'[Len(sent')].msg_type,
                                         [status |-> "aborted"], Head(reply_queue).msg,
                                         Head(reply_queue).ident, << >>))
             /\ handled' = handled
             /\ pc' = "abort"]_vars
    /\ [][(pc = "abort" /\ pc' # "abort") => (reply_queue = << >> /\ reply_queue' = << >>)]_vars
    /\ [](AbortedIds \cap Handled = {})

\* A request that was not yet on the channel at the error reply arrived during the
\* drain and was answered 'aborted'; the drain has ended.
C32_Witness ==
    /\ pc = "idle"
    /\ \E id \in AbortedIds : id \notin QueuedAtError
    /\ AbortedIds \cap Handled = {}

\* C33: an iteration of the abort drain whose recv fails with a transport error other
\* than 'no message available' sends nothing (in particular not a second reply to the
\* message drained before) and does not stop the kernel: the drain goes on.
C33_FaultSendsNothing ==
    [][abort_queue_fault => (sent' = sent /\ pc' = "abort")]_vars

\* What such an iteration does when the drain has received a message before: the
\* aborted reply to that message is sent once more.
FaultRepeatsLastReply ==
    [][(abort_queue_fault /\ abort_local.bound) =>
          /\ Len(sent') = Len(sent) + 1
          /\ \E i \in AbortedReplies :
                /\ ParentId(sent[i]) = IdOf(abort_local)
                /\ sent'[Len(sent')] = sent[i]]_vars

\* What it does when it is the first iteration of the drain: the kernel stops.
FaultOnFirstIterationStops ==
    [][(abort_queue_fault /\ ~abort_local.bound) => (pc' = "crashed" /\ sent' = sent)]_vars

\* C34: the abort drain changes nothing but the reply channel: in every step taken
\* from the error reply until the drain has ended, user_ns, history, and the parent
\* header and the buffer of stdout and of stderr stay as they are, and every message
\* sent is sent on the reply channel (none on the broadcast or the input channel).
C34_DrainFrame ==
    [][pc = "abort" =>
          /\ user_ns' = user_ns
          /\ history' = history
          /\ \A n \in DOMAIN streams :
                /\ streams'[n].parent_header = streams[n].parent_header
                /\ streams'[n].buffer = streams[n].buffer
          /\ Len(sent') >= Len(sent)
          /\ \A i \in DOMAIN sent' : i > Len(sent) => sent'[i].socket = "reply"]_vars

\* The drain that followed the failure of 'x = 2; sys.stderr.write('e'); 1/0' has
\* answered a request and ended: x is still 2 and the streams still carry the header
\* of the failed request.
C34_Witness ==
    /\ pc = "idle"
    /\ Len(handled) = 1
    /\ 2 \in AbortedIds
    /\ "x" \in DOMAIN user_ns
    /\ user_ns["x"] = "2"
    /\ \A n \in DOMAIN streams : streams[n].parent_header = handled[1].msg.header

\* The code that binds x to 2 and then raises.
RaisesAfterBinding == "x = 2; sys.stderr.write('e'); 1/0"

\* Handled request k ran RaisesAfterBinding, was answered with status 'error', and no
\* request dispatched after it binds x.
FailedAfterBindingX(k) ==
    /\ handled[k].msg.content = [code |-> RaisesAfterBinding]
    /\ \E i \in Sent(execute_reply, IdOf(handled[k])) : sent[i].content.status = "error"
    /\ \A j \in DOMAIN handled :
          j > k => handled[j].msg.content \notin {[code |-> "x = 1"], [code |-> RaisesAfterBinding]}

\* Handled request j ran 'y = x' to its end, and no request dispatched after it binds y.
ReadXLast(j) ==
    /\ handled[j].msg.content = [code |-> "y = x"]
    /\ Ended(IdOf(handled[j]))
    /\ \A l \in DOMAIN handled :
          l > j => handled[l].msg.content \notin {[code |-> "y = x"], [code |-> "y = raw_input('p')"]}

\* C35: execute_request has no rollback: when code raises part-way through, what it
\* bound in user_ns before the exception remains, although the request is answered
\* with status 'error', and every later request sees it: after 'x = 2; ...; 1/0'
\* failed x is 2 until a later request binds x, and a later 'y = x' gives y the value 2.
C35_NoRollback ==
    \A k \in DOMAIN handled :
        FailedAfterBindingX(k) =>
            /\ "x" \in DOMAIN user_ns
            /\ user_ns["x"] = "2"
            /\ \A j \in DOMAIN handled :
                  (j > k /\ ReadXLast(j)) =>
                      /\ "y" \in DOMAIN user_ns
                      /\ user_ns["y"] = "2"
                      /\ \E i \in Sent(execute_reply, IdOf(handled[j])) :
                            sent[i].content.status = "ok"

\* The failed request was followed, after the drain, by 'y = x', which saw x = 2.
C35_Witness ==
    /\ pc = "idle"
    /\ Len(handled) = 2
    /\ FailedAfterBindingX(1)
    /\ ReadXLast(2)
    /\ user_ns = ("x" :> "2") @@ ("y" :> "2")

\* The text of the stream messages of stream name with parent id among the first k
\* messages sent.
RECURSIVE StreamData(_, _, _)
StreamData(k, name, id) ==
    IF k = 0
    THEN << >>
    ELSE StreamData(k - 1, name, id) \o
         (IF /\ sent[k].msg_type = <<"stream">>
             /\ sent[k].socket = "pub"
             /\ sent[k].content.name = name
             /\ ParentId(sent[k]) = id
          THEN sent[k].content.data
          ELSE << >>)

\* The positions in sent of the input_requests.
InputRequests == {i \in DOMAIN sent : sent[i].msg_type = <<"input", "request">>}

\* The handled request with msg_id id.
HandledAs(id) == handled[CHOOSE k \in DOMAIN handled : IdOf(handled[k]) = id]

\* C36: when executing code requests input, the text it wrote to stdout and to stderr
\* before the call is published, in stream messages with the executing request as
\* parent, before the input_request is sent; the input_request is sent on the input
\* channel with the prompt and with the executing request as parent; and while the
\* kernel waits for the reply both buffers are empty.
C36_OutputBeforeInputRequest ==
    /\ \A i \in InputRequests :
          /\ sent[i].socket = "req"
          /\ sent[i].content = [prompt |-> "p"]
          /\ ParentId(sent[i]) \in Handled
          /\ sent[i].parent_header = HandledAs(ParentId(sent[i])).msg.header
          /\ HandledAs(ParentId(sent[i])).msg.content = [code |-> WritesThenAsks] =>
                /\ StreamData(i - 1, "stdout", ParentId(sent[i])) = <<"a">>
                /\ StreamData(i - 1, "stderr", ParentId(sent[i])) = <<"e">>
    /\ pc = "input" =>
          /\ sent[Len(sent)].msg_type = <<"input", "request">>
          /\ ParentId(sent[Len(sent)]) = IdOf(cur)
          /\ \A n \in DOMAIN streams : streams[n].buffer = << >>

\* The code wrote 'a' and 'e' and now waits for input: both texts were published by
\* the flush of _raw_input, just before the input_request.
C36_Witness ==
    /\ pc = "input"
    /\ cur.msg.content = [code |-> WritesThenAsks]
    /\ Len(sent) = 4
    /\ sent[2].msg_type = <<"stream">> /\ sent[2].content = [name |-> "stderr", data |-> <<"e">>]
    /\ sent[3].msg_type = <<"stream">> /\ sent[3].content = [name |-> "stdout", data |-> <<"a">>]
    /\ sent[4].msg_type = <<"input", "request">>

\* Call k of the log, a set_parent, sent nothing and left the buffer as it was.
SetParentKeepsBuffer(k) ==
    /\ SentBy(k) = calls[k].n
    /\ StreamAfter(k).buffer = calls[k].s.buffer
    /\ StreamAfter(k).parent_header = calls[k].arg.header

\* Whatever call k of the log, a write or a flush, published is one message with the
\* whole buffer of that moment, tagged with the parent header of that moment.
TaggedAtFlush(k) ==
    LET c == calls[k]
        text == IF c.op = "write" THEN c.s.buffer \o c.arg ELSE c.s.buffer
    IN  SentBy(k) > c.n =>
           /\ SentBy(k) = c.n + 1
           /\ sent[c.n + 1].msg_type = <<"stream">>
           /\ sent[c.n + 1].content.data = text
           /\ sent[c.n + 1].parent_header = c.s.parent_header

\* C37: OutStream attributes text at flush time, not at write time: set_parent on an
\* open or closed stream sends nothing and keeps the buffered text, and the message
\* a later flush sends carries the whole buffer under the parent header the stream
\* has at that flush; so text written under A's header and still buffered at
\* set_parent(B) is published with B's header.
C37_TextTaggedAtFlushTime ==
    \A k \in DOMAIN calls :
        /\ calls[k].op = "set_parent" => SetParentKeepsBuffer(k)
        /\ calls[k].op \in {"write", "flush"} => TaggedAtFlush(k)

\* set_parent(A), write('a'), set_parent(B), flush(): 'a' is published under B.
C37_Witness ==
    /\ Len(calls) = 4
    /\ calls[1].op = "set_parent" /\ calls[1].arg.header.msg_id = 1
    /\ calls[2].op = "write" /\ calls[2].arg = <<"a">>
    /\ calls[3].op = "set_parent" /\ calls[3].arg.header.msg_id = 2
    /\ calls[3].s.buffer = <<"a">> /\ calls[3].s.parent_header.msg_id = 1
    /\ calls[4].op = "flush"
    /\ Len(sent) = 1
    /\ sent[1].content.data = <<"a">>
    /\ sent[1].parent_header.msg_id = 2

\* C38: in every reachable state of the open stream the start of the flush window is
\* set if and only if the buffer holds text that was not flushed.
C38_StartSetIffBuffered ==
    streams["stdout"].open =>
        ((streams["stdout"].start # -1) <=> (streams["stdout"].buffer # << >>))

\* One half does hold: an open stream whose buffer holds text has its window start set.
BufferedTextHasStart ==
    (streams["stdout"].open /\ streams["stdout"].buffer # << >>) => streams["stdout"].start # -1

\* What the stale start does: after write(''), a write of a text that comes more than
\* flush_interval later is flushed at once, though it is the first text in the buffer.
StaleStartFlushesFirstText ==
    /\ Len(calls) = 2
    /\ calls[1].op = "write" /\ calls[1].arg = << >> /\ calls[1].s.start = -1
    /\ calls[2].op = "write" /\ calls[2].arg = <<"a">>
    /\ calls[2].s.buffer = << >> /\ calls[2].s.start = calls[1].t
    /\ Len(sent) = 1
    /\ sent[1].content.data = <<"a">>

\* C39: OutStream.close does not flush: a call of close sends no message and leaves
\* the buffer as it is; after it the stream stays closed and nothing is ever sent
\* again, so text buffered at the close is never published; and close on a closed
\* stream changes nothing.
C39_CloseDoesNotFlush ==
    \A k \in DOMAIN calls :
        calls[k].op = "close" =>
            /\ SentBy(k) = calls[k].n
            /\ StreamAfter(k).buffer = calls[k].s.buffer
            /\ ~StreamAfter(k).open
            /\ ~streams["stdout"].open
            /\ streams["stdout"].buffer = calls[k].s.buffer
            /\ Len(sent) = calls[k].n
            /\ ~calls[k].s.open => StreamAfter(k) = calls[k].s

\* write('a'), close(), flush(), close(): the flush raised, 'a' is still in the buffer
\* and nothing was sent.
C39_Witness ==
    /\ Len(calls) = 4
    /\ calls[1].op = "write" /\ calls[1].arg = <<"a">>
    /\ calls[2].op = "close" /\ calls[2].s.buffer = <<"a">>
    /\ calls[3].op = "flush" /\ calls[3].raised
    /\ calls[4].op = "close"
    /\ streams["stdout"].buffer = <<"a">>
    /\ sent = << >>

====
